---- MODULE Spec2Model ----
(***************************************************************************)
(* Model of the LSM segment group (package lsmkv, type SegmentGroup):      *)
(* recovery of the segment sequence from a directory (newSegmentGroup),    *)
(* the Replace-strategy readers (get, getErrDeleted), append (add,         *)
(* addInitializedSegment), count and shutdown.                             *)
(***************************************************************************)
EXTENDS Integers, Sequences, FiniteSets, TLC

VARIABLES files, sgState, segments, segmentsNil, registered, last, runs,
          clock, lastCleanupCall, lastCompactionCall,
          maintenanceLock, running, pc, loc

\* the directory, the group and its sequence, and the record of the calls
groupVars == <<files, sgState, segments, segmentsNil, registered, last, runs>>

\* the wall clock and the two timestamps of the maintenance policy
timeVars == <<clock, lastCleanupCall, lastCompactionCall>>

\* the maintenance lock, the maintenance passes in execution, and the
\* position and the local variables of every goroutine
procVars == <<maintenanceLock, running, pc, loc>>

vars == <<groupVars, timeVars, procVars>>

(***************************************************************************)
(* Bounds of the model.                                                    *)
(***************************************************************************)
\* segment identifiers are 1..MaxId (fixed-width, so numeric = lexicographic)
MaxId == 3
\* number of entries of a directory handed to recovery
MaxFiles == 3
\* length of the segment sequence up to which appends are explored
MaxSegs == 3
\* number of times recovery runs over the same directory
MaxRuns == 2
\* the hours of wall-clock time a behaviour spans
MaxClock == 27

Ids == 1..MaxId

Keys == {"k1", "k2"}

(***************************************************************************)
(* File names.  A name "segment-<id>{_<id>}<ext>{<ext>}" is the record of  *)
(* its identifiers and its extensions, e.g. segment-1_2.db.tmp is          *)
(* [ids |-> <<1, 2>>, exts |-> <<".db", ".tmp">>].                         *)
(***************************************************************************)
DeleteMarkerSuffix == ".deleteme"

Name(ids, exts) == [ids |-> ids, exts |-> exts]

NoName == Name(<<>>, <<>>)

\* fmt.Sprintf("segment-%s.db", id)
SegmentFilename(id) == Name(<<id>>, <<".db">>)

WalName(id) == Name(<<id>>, <<".wal">>)

\* segment-<id>.db.tmp, the leftover of a segment cleanup
CleanupTmpName(id) == Name(<<id>>, <<".db", ".tmp">>)

\* segment-<A>_<B>.db.tmp, the output of a compaction in progress
CompactionTmpName(a, b) == Name(<<a, b>>, <<".db", ".tmp">>)

DeleteMarkedName(id) == Name(<<id>>, <<".db", DeleteMarkerSuffix>>)

\* a compaction output of a version older than v1.24.0 (three identifiers)
LegacyTmpName == Name(<<1, 2, 3>>, <<".db", ".tmp">>)

\* a temporary file of another kind
OtherTmpName == Name(<<1>>, <<".wal", ".tmp">>)

\* filepath.Ext: the last extension of the name
Ext(n) == IF Len(n.exts) = 0 THEN "" ELSE n.exts[Len(n.exts)]

\* strings.TrimSuffix(name, suffix) for a suffix that is one extension
TrimSuffix(n, suffix) ==
    IF Ext(n) = suffix
    THEN Name(n.ids, SubSeq(n.exts, 1, Len(n.exts) - 1))
    ELSE n

\* strings.Split(segmentID(fileName), "_"): the identifiers of the name
JointSegmentsIDs(n) == TrimSuffix(n, ".db").ids

\* strings.TrimSuffix(entry.Name(), ".db") + ".wal"
WalFileName(n) ==
    LET stem == TrimSuffix(n, ".db")
    IN Name(stem.ids, Append(stem.exts, ".wal"))

(***************************************************************************)
(* os.ReadDir returns the entries sorted by file name.  The key of a name  *)
(* lists its characters class by class: an identifier, then "_" (which     *)
(* sorts after ".") before a further identifier, then the extensions.      *)
(***************************************************************************)
ExtRank(e) ==
    CASE e = ".db" -> 1
      [] e = DeleteMarkerSuffix -> 2
      [] e = ".tmp" -> 3
      [] e = ".wal" -> 4
      [] OTHER -> 0

UnderscoreRank == ExtRank(".wal") + 1

RECURSIVE IdsKey(_)
IdsKey(ids) ==
    IF Len(ids) = 0 THEN <<>>
    ELSE IF Len(ids) = 1 THEN <<ids[1]>>
    ELSE <<ids[1], UnderscoreRank>> \o IdsKey(Tail(ids))

SortKey(n) == IdsKey(n.ids) \o [i \in 1..Len(n.exts) |-> ExtRank(n.exts[i])]

RECURSIVE LexLess(_, _)
LexLess(a, b) ==
    IF Len(a) = 0 THEN Len(b) > 0
    ELSE IF Len(b) = 0 THEN FALSE
    ELSE IF a[1] # b[1] THEN a[1] < b[1]
    ELSE LexLess(Tail(a), Tail(b))

NameLess(m, n) == LexLess(SortKey(m), SortKey(n))

RECURSIVE SortNames(_)
SortNames(S) ==
    IF S = {} THEN <<>>
    ELSE LET first == CHOOSE m \in S : \A n \in S \ {m} : NameLess(m, n)
         IN <<first>> \o SortNames(S \ {first})

\* the directory is a function from the names present to the content of
\* each file; a file's content is identified by the name it was written as
ReadDir(f) == SortNames(DOMAIN f)

RemoveFile(f, n) == [m \in DOMAIN f \ {n} |-> f[m]]

RenameFile(f, old, new) ==
    [m \in (DOMAIN f \ {old}) \cup {new} |-> IF m = new THEN f[old] ELSE f[m]]

(***************************************************************************)
(* The segment collaborator: what a segment file holds and what a segment  *)
(* handle answers.                                                         *)
(***************************************************************************)
Values == {"v1", "v2"}

\* outcome of segment.get(key): a value, lsmkv.NotFound, lsmkv.Deleted or
\* another (I/O) error
Outcomes == Values \cup {"NotFound", "Deleted", "IOError"}

KeyIndex(k) == IF k = "k1" THEN 0 ELSE 1

\* what the flusher wrote for key k into segment id
FlushedOutcome(id, k) ==
    LET r == (id + KeyIndex(k)) % 4
    IN CASE r = 0 -> "NotFound"
         [] r = 1 -> "v1"
         [] r = 2 -> "Deleted"
         [] OTHER -> "v2"

\* the newest identifier of ids[1..n] that holds k, 0 if none does
RECURSIVE NewestHolder(_, _, _)
NewestHolder(ids, n, k) ==
    IF n = 0 THEN 0
    ELSE IF FlushedOutcome(ids[n], k) # "NotFound" THEN ids[n]
    ELSE NewestHolder(ids, n - 1, k)

\* the data of a file: a flushed segment holds what the flusher wrote, a
\* compaction output holds the newest entry of its inputs per key
DataOf(content) ==
    [k \in Keys |->
        LET h == NewestHolder(content.ids, Len(content.ids), k)
        IN IF h = 0 THEN "NotFound" ELSE FlushedOutcome(h, k)]

NetAdditions(data) ==
    Cardinality({k \in Keys : data[k] \in Values})
        - Cardinality({k \in Keys : data[k] = "Deleted"})

Segment(path, content, data, cna) ==
    [path |-> path, content |-> content, data |-> data,
     countNetAdditions |-> cna]

\* a nil *segment
NilSegment == [nil |-> TRUE]

\* an I/O failure: "none", or the kind of operation (stat, remove, rename,
\* open, close, fsync, readdir, cleaner) that fails while it lasts
NoFault == "none"

Fails(fault, op, name) == fault = op

\* newSegment(path, ...): opens the file at path
newSegment(f, path, fault) ==
    IF path \notin DOMAIN f \/ Fails(fault, "open", path)
    THEN [err |-> TRUE, seg |-> NilSegment]
    ELSE [err |-> FALSE,
          seg |-> Segment(path, f[path], DataOf(f[path]),
                          NetAdditions(DataOf(f[path])))]

\* segment.get(key)
SegmentGet(seg, key) == seg.data[key]

(***************************************************************************)
(* fileExists and the file operations recovery uses.                       *)
(***************************************************************************)
\* fileExists(path): [ok, err]
fileExists(f, path, fault) ==
    IF Fails(fault, "stat", path) THEN [ok |-> FALSE, err |-> TRUE]
    ELSE [ok |-> path \in DOMAIN f, err |-> FALSE]

\* os.Remove fails on a file that is not there
RemoveFails(f, path, fault) == path \notin DOMAIN f \/ Fails(fault, "remove", path)

RenameFails(f, path, fault) == path \notin DOMAIN f \/ Fails(fault, "rename", path)

(***************************************************************************)
(* newSegmentGroup: recovery of the sequence from the directory.  The      *)
(* working state st is [files, segments, segmentIndex, recovered, err]:    *)
(* the directory, the preallocated slice, the next free slot, the names    *)
(* in segmentsAlreadyRecoveredFromCompaction and the error returned        *)
(* ("" while there is none).                                               *)
(***************************************************************************)
Failed(st, msg) == [st EXCEPT !.err = msg]

\* sg.segments[segmentIndex] = segment; segmentIndex++
PlaceSegment(st, seg) ==
    [st EXCEPT !.segments[st.segmentIndex + 1] = seg,
               !.segmentIndex = st.segmentIndex + 1]

\* a variant that does not record the segment in
\* segmentsAlreadyRecoveredFromCompaction
RenameAndOpenUnrecorded(st, entry, rightSegmentFilename, fault) ==
    IF RenameFails(st.files, entry, fault)
    THEN Failed(st, "rename compacted segment file")
    ELSE LET renamed == RenameFile(st.files, entry, rightSegmentFilename)
             opened == newSegment(renamed, rightSegmentFilename, fault)
         IN IF opened.err
            THEN Failed([st EXCEPT !.files = renamed], "init segment")
            ELSE [PlaceSegment(st, opened.seg) EXCEPT !.files = renamed]

\* the rename of the compaction output over the right path, its opening and
\* its recording as recovered from compaction
RenameAndOpen(st, entry, rightSegmentFilename, fault) ==
    IF RenameFails(st.files, entry, fault)
    THEN Failed(st, "rename compacted segment file")
    ELSE LET renamed == RenameFile(st.files, entry, rightSegmentFilename)
             opened == newSegment(renamed, rightSegmentFilename, fault)
         IN IF opened.err
            THEN Failed([st EXCEPT !.files = renamed], "init segment")
            ELSE [PlaceSegment(st, opened.seg) EXCEPT
                     !.files = renamed,
                     !.recovered = st.recovered \cup {rightSegmentFilename}]

\* the right segment is opened only to be closed and dropped
DropRightSegment(st, rightSegmentFilename, fault) ==
    IF newSegment(st.files, rightSegmentFilename, fault).err
    THEN Failed(st, "init already compacted right segment")
    ELSE IF Fails(fault, "close", rightSegmentFilename)
    THEN Failed(st, "close already compacted right segment")
    ELSE IF RemoveFails(st.files, rightSegmentFilename, fault)
    THEN Failed(st, "delete already compacted right segment")
    ELSE IF Fails(fault, "fsync", NoName)
    THEN Failed([st EXCEPT !.files = RemoveFile(st.files, rightSegmentFilename)],
                "fsync segment directory")
    ELSE [st EXCEPT !.files = RemoveFile(st.files, rightSegmentFilename)]

\* a variant that leaves the compaction output in the directory
BothSegmentsFoundKeepingTmp(st, entry, fault) == st

\* both inputs of the compaction are there: the output is deleted
BothSegmentsFound(st, entry, fault) ==
    IF RemoveFails(st.files, entry, fault)
    THEN Failed(st, "delete partially compacted segment")
    ELSE [st EXCEPT !.files = RemoveFile(st.files, entry)]

\* a variant that takes the compaction output for the missing right segment
MissingRightSegmentTolerated(st, entry, rightSegmentFilename, fault) ==
    RenameAndOpen(st, entry, rightSegmentFilename, fault)

\* the left input is there, the right one is not
MissingRightSegment(st, entry, rightSegmentFilename, fault) ==
    Failed(st, "missing right segment")

\* one iteration of the first loop (compacted segments)
Pass1Entry(st, entry, fault) ==
    IF Ext(entry) # ".tmp" THEN st
    ELSE IF Ext(TrimSuffix(entry, ".tmp")) # ".db" THEN st
    ELSE LET jointSegmentsIDs == JointSegmentsIDs(TrimSuffix(entry, ".tmp"))
         IN IF Len(jointSegmentsIDs) = 1
            THEN IF RemoveFails(st.files, entry, fault)
                 THEN Failed(st, "delete partially cleaned segment")
                 ELSE [st EXCEPT !.files = RemoveFile(st.files, entry)]
            ELSE IF Len(jointSegmentsIDs) # 2 THEN st
            ELSE LET leftSegmentFilename == SegmentFilename(jointSegmentsIDs[1])
                     rightSegmentFilename == SegmentFilename(jointSegmentsIDs[2])
                     leftSegmentFound == fileExists(st.files, leftSegmentFilename, fault)
                     rightSegmentFound == fileExists(st.files, rightSegmentFilename, fault)
                 IN IF leftSegmentFound.err \/ rightSegmentFound.err
                    THEN Failed(st, "check for presence of segment")
                    ELSE IF leftSegmentFound.ok /\ rightSegmentFound.ok
                    THEN BothSegmentsFound(st, entry, fault)
                    ELSE IF leftSegmentFound.ok /\ ~rightSegmentFound.ok
                    THEN MissingRightSegment(st, entry, rightSegmentFilename, fault)
                    ELSE IF ~leftSegmentFound.ok /\ rightSegmentFound.ok
                    THEN LET dropped == DropRightSegment(st, rightSegmentFilename, fault)
                         IN IF dropped.err # "" THEN dropped
                            ELSE RenameAndOpen(dropped, entry, rightSegmentFilename, fault)
                    ELSE RenameAndOpen(st, entry, rightSegmentFilename, fault)

\* a variant that opens the segment although it has a write-ahead log
PartiallyWrittenOpened(st, entry, fault) ==
    LET opened == newSegment(st.files, entry, fault)
    IN IF opened.err THEN Failed(st, "init segment")
       ELSE PlaceSegment(st, opened.seg)

\* a segment with a write-ahead log was not flushed completely: its file
\* is deleted, the segment will be recovered from the log
PartiallyWritten(st, entry, fault) ==
    IF RemoveFails(st.files, entry, fault)
    THEN Failed(st, "delete partially written segment")
    ELSE [st EXCEPT !.files = RemoveFile(st.files, entry)]

\* the segment file is opened and takes the next slot
OpenSegment(st, entry, fault) ==
    LET opened == newSegment(st.files, entry, fault)
    IN IF opened.err THEN Failed(st, "init segment")
       ELSE PlaceSegment(st, opened.seg)

\* one iteration of the second loop (regular segments)
Pass2Entry(st, entry, fault) ==
    IF Ext(entry) = DeleteMarkerSuffix
    THEN IF RemoveFails(st.files, entry, fault) THEN st
         ELSE [st EXCEPT !.files = RemoveFile(st.files, entry)]
    ELSE IF Ext(entry) # ".db" THEN st
    ELSE IF entry \in st.recovered THEN st
    ELSE LET wal == fileExists(st.files, WalFileName(entry), fault)
         IN IF wal.err THEN Failed(st, "check for presence of wals")
            ELSE IF wal.ok THEN PartiallyWritten(st, entry, fault)
            ELSE OpenSegment(st, entry, fault)

\* for _, entry := range list, from entry i on; an error returns at once
RECURSIVE Pass1(_, _, _, _)
Pass1(st, list, i, fault) ==
    IF i > Len(list) \/ st.err # "" THEN st
    ELSE Pass1(Pass1Entry(st, list[i], fault), list, i + 1, fault)

RECURSIVE Pass2(_, _, _, _)
Pass2(st, list, i, fault) ==
    IF i > Len(list) \/ st.err # "" THEN st
    ELSE Pass2(Pass2Entry(st, list[i], fault), list, i + 1, fault)

\* sg.segments = sg.segments[:segmentIndex]
Truncate(st) == SubSeq(st.segments, 1, st.segmentIndex)

\* the whole of newSegmentGroup on directory f: [files, segments, err]
Recover(f, fault) ==
    IF Fails(fault, "readdir", NoName)
    THEN [files |-> f, segments |-> <<>>, err |-> "read dir"]
    ELSE LET list == ReadDir(f)
             st0 == [files |-> f,
                     segments |-> [i \in 1..Len(list) |-> NilSegment],
                     segmentIndex |-> 0,
                     recovered |-> {},
                     err |-> ""]
             st1 == Pass1(st0, list, 1, fault)
             st2 == Pass2(st1, list, 1, fault)
         IN IF st2.err # ""
            THEN [files |-> st2.files, segments |-> <<>>, err |-> st2.err]
            ELSE IF Fails(fault, "cleaner", NoName)
            THEN [files |-> st2.files, segments |-> <<>>, err |-> "new segment cleaner"]
            ELSE [files |-> st2.files, segments |-> Truncate(st2), err |-> ""]

(***************************************************************************)
(* The readers of the Replace strategy, count.                             *)
(***************************************************************************)
\* what a reader returns: (v, err), or a panic
Ret(v, err) == [v |-> v, err |-> err]

Panic == [v |-> "panic", err |-> "panic"]

\* mutant: a tombstone does not stop the walk
RECURSIVE getWalkingPastTombstones(_, _, _)
getWalkingPastTombstones(segs, key, i) ==
    IF i < 0 THEN Ret("nil", "nil")
    ELSE IF i >= Len(segs) \/ segs[i + 1] = NilSegment THEN Panic
    ELSE LET out == SegmentGet(segs[i + 1], key)
         IN IF out \in {"NotFound", "Deleted"}
            THEN getWalkingPastTombstones(segs, key, i - 1)
            ELSE IF out = "IOError" THEN Panic
            ELSE Ret(out, "nil")

\* a variant that goes on to the older segment after an unknown error
RECURSIVE getWalkingPastErrors(_, _, _)
getWalkingPastErrors(segs, key, i) ==
    IF i < 0 THEN Ret("nil", "nil")
    ELSE IF i >= Len(segs) \/ segs[i + 1] = NilSegment THEN Panic
    ELSE LET out == SegmentGet(segs[i + 1], key)
         IN IF out \in {"NotFound", "IOError"}
            THEN getWalkingPastErrors(segs, key, i - 1)
            ELSE IF out = "Deleted" THEN Ret("nil", "nil")
            ELSE Ret(out, "nil")

\* the loop of getWithUpperSegmentBoundary from (0-based) position i down
RECURSIVE getWithUpperSegmentBoundary(_, _, _)
getWithUpperSegmentBoundary(segs, key, i) ==
    IF i < 0 THEN Ret("nil", "nil")
    ELSE IF i >= Len(segs) \/ segs[i + 1] = NilSegment THEN Panic
    ELSE LET out == SegmentGet(segs[i + 1], key)
         IN IF out = "NotFound" THEN getWithUpperSegmentBoundary(segs, key, i - 1)
            ELSE IF out = "Deleted" THEN Ret("nil", "nil")
            ELSE IF out = "IOError" THEN Panic
            ELSE Ret(out, "nil")

\* sg.get(key)
get(segs, key) == getWithUpperSegmentBoundary(segs, key, Len(segs) - 1)

\* mutant: a key no segment holds is reported like a value that is nil
RECURSIVE getErrDeletedWithoutNotFound(_, _, _)
getErrDeletedWithoutNotFound(segs, key, i) ==
    IF i < 0 THEN Ret("nil", "nil")
    ELSE IF i >= Len(segs) \/ segs[i + 1] = NilSegment THEN Panic
    ELSE LET out == SegmentGet(segs[i + 1], key)
         IN IF out = "NotFound"
            THEN getErrDeletedWithoutNotFound(segs, key, i - 1)
            ELSE IF out = "Deleted" THEN Ret("nil", "Deleted")
            ELSE IF out = "IOError" THEN Panic
            ELSE Ret(out, "nil")

RECURSIVE getWithUpperSegmentBoundaryErrDeleted(_, _, _)
getWithUpperSegmentBoundaryErrDeleted(segs, key, i) ==
    IF i < 0 THEN Ret("nil", "NotFound")
    ELSE IF i >= Len(segs) \/ segs[i + 1] = NilSegment THEN Panic
    ELSE LET out == SegmentGet(segs[i + 1], key)
         IN IF out = "NotFound"
            THEN getWithUpperSegmentBoundaryErrDeleted(segs, key, i - 1)
            ELSE IF out = "Deleted" THEN Ret("nil", "Deleted")
            ELSE IF out = "IOError" THEN Panic
            ELSE Ret(out, "nil")

\* sg.getErrDeleted(key)
getErrDeleted(segs, key) ==
    getWithUpperSegmentBoundaryErrDeleted(segs, key, Len(segs) - 1)

\* the primary key of the entry a secondary key leads to
PrimaryOf(key) == IF key = "k1" THEN "p1" ELSE "p2"

\* segment.getBySecondaryIntoMemory(pos, key, buffer): the segment looks
\* the secondary key up as it does a primary key
SegmentGetBySecondary(seg, key) == seg.data[key]

\* what getBySecondaryIntoMemory returns: (k, v, allocatedBuff, err)
RetSecondary(k, v, err) == [k |-> k, v |-> v, buff |-> v, err |-> err]

\* the loop of getBySecondaryIntoMemory from (0-based) position i down
RECURSIVE getBySecondaryFrom(_, _, _)
getBySecondaryFrom(segs, key, i) ==
    IF i < 0 THEN RetSecondary("nil", "nil", "nil")
    ELSE IF i >= Len(segs) \/ segs[i + 1] = NilSegment
    THEN RetSecondary("panic", "panic", "panic")
    ELSE LET out == SegmentGetBySecondary(segs[i + 1], key)
         IN IF out = "NotFound" THEN getBySecondaryFrom(segs, key, i - 1)
            ELSE IF out = "Deleted" THEN RetSecondary("nil", "nil", "nil")
            ELSE IF out = "IOError"
            THEN RetSecondary("panic", "panic", "panic")
            ELSE RetSecondary(PrimaryOf(key), out, "nil")

\* sg.getBySecondaryIntoMemory(pos, key, buffer)
getBySecondaryIntoMemory(segs, key) ==
    getBySecondaryFrom(segs, key, Len(segs) - 1)

\* the loop of count over segs[i..]: the sum, or a panic on a nil slot
RECURSIVE CountFrom(_, _, _)
CountFrom(segs, i, acc) ==
    IF i > Len(segs) THEN [panic |-> FALSE, n |-> acc]
    ELSE IF segs[i] = NilSegment THEN [panic |-> TRUE, n |-> 0]
    ELSE CountFrom(segs, i + 1, acc + segs[i].countNetAdditions)

\* sg.count()
count(segs) == CountFrom(segs, 1, 0)

(***************************************************************************)
(* Inputs.                                                                 *)
(***************************************************************************)
\* every file name a directory may hold: the segments, write-ahead logs
\* and compaction outputs of all identifiers, and one file of each other
\* kind
AllNames ==
    {SegmentFilename(i) : i \in Ids} \cup {WalName(i) : i \in Ids}
        \cup {CompactionTmpName(a, b) : a, b \in Ids}
        \cup {CleanupTmpName(1), DeleteMarkedName(1), LegacyTmpName, OtherTmpName}

IsCompactionTmp(n) == Len(n.ids) = 2 /\ n.exts = <<".db", ".tmp">>

\* the directories a crash can leave: compaction runs one at a time and
\* merges an older (left) with a newer (right) segment, so at most one
\* compaction output is in progress
RECURSIVE SubsetsUpTo(_, _)
SubsetsUpTo(U, n) ==
    IF n = 0 THEN {{}}
    ELSE LET smaller == SubsetsUpTo(U, n - 1)
         IN smaller \cup {S \cup {x} : S \in smaller, x \in U}

\* and the inputs of a compaction are durable (their logs are gone)
CrashDirs ==
    {S \in SubsetsUpTo(AllNames, MaxFiles) :
        /\ Cardinality({n \in S : IsCompactionTmp(n)}) <= 1
        /\ \A n \in S : IsCompactionTmp(n) =>
              /\ n.ids[1] < n.ids[2]
              /\ WalName(n.ids[1]) \notin S
              /\ WalName(n.ids[2]) \notin S}

\* the directories of a clean stop: the published segments 1..n
CleanDirs ==
    {{SegmentFilename(i) : i \in 1..n} : n \in {m \in 0..MaxFiles : m <= MaxId}}

DirOf(S) == [n \in S |-> n]

\* the I/O failures a run of recovery can be under
RecoveryFaults ==
    {NoFault, "readdir", "stat", "remove", "rename", "open", "close", "fsync",
     "cleaner"}

\* the segments a caller hands to addInitializedSegment: what they answer
\* for k1 and their net additions
\* a segment prepared by a caller: what it answers for k1 and for k2, and
\* its net additions
PreparedSegment(o1, o2, cna) ==
    Segment(NoName, NoName, [k \in Keys |-> IF k = "k1" THEN o1 ELSE o2], cna)

\* net additions of a prepared segment: 1 for a new key, -1 for the
\* tombstone of a key that exists below, 0 otherwise
NetAdditionsFor(o) ==
    IF o = "v1" THEN 1 ELSE IF o = "Deleted" THEN -1 ELSE 0

\* the segments a caller hands to addInitializedSegment
InitializedSegments ==
    {PreparedSegment(o, "NotFound", NetAdditionsFor(o)) : o \in {"v1", "Deleted"}}

\* the segments of the sequences the readers are run on
ReadSegments ==
    {PreparedSegment(o1, o2, NetAdditionsFor(o1)) :
        o1 \in Outcomes, o2 \in {"NotFound", "v2", "Deleted"}}

RECURSIVE SeqsUpTo(_, _)
SeqsUpTo(S, n) ==
    IF n = 0 THEN {<<>>}
    ELSE LET shorter == SeqsUpTo(S, n - 1)
         IN shorter \cup {Append(q, x) : q \in shorter, x \in S}

(***************************************************************************)
(* The state machine.  sgState is "none" while no group is constructed     *)
(* and "open" once newSegmentGroup returned one; last records the most     *)
(* recent operation and what it returned; runs records every run of        *)
(* recovery.                                                               *)
(***************************************************************************)
\* the goroutines that use the group: one reader, the flusher, the caller
\* of shutdown and the loop of the cycle manager
Goroutines == {"reader", "flusher", "closer", "cycle"}

\* sync.RWMutex: the goroutine that holds it for writing, those that hold
\* it for reading
Unlocked == [writer |-> "none", readers |-> {}]

NoLocals == [at |-> "none"]

\* the two maintenance passes, and how many executions of each are under way
Passes == {"compaction", "cleanup"}

NoneRunning == [p \in Passes |-> 0]

\* no goroutine has started, no time has passed
Quiet ==
    /\ clock = 0
    /\ lastCleanupCall = 0
    /\ lastCompactionCall = 0
    /\ maintenanceLock = Unlocked
    /\ running = NoneRunning
    /\ pc = [g \in Goroutines |-> "idle"]
    /\ loc = [g \in Goroutines |-> NoLocals]

NoGroup ==
    /\ sgState = "none"
    /\ segments = <<>>
    /\ segmentsNil = TRUE
    /\ registered = FALSE
    /\ last = [op |-> "init"]
    /\ runs = <<>>
    /\ Quiet

\* newSegmentGroup(cfg) on the directory as it is, under fault; an I/O
\* failure is transient: it lasts for the first run only
NewSegmentGroup(fault) ==
    /\ sgState = "none"
    /\ Len(runs) < MaxRuns
    /\ fault # NoFault => runs = <<>>
    /\ LET r == Recover(files, fault)
       IN /\ files' = r.files
          /\ IF r.err = ""
             THEN /\ sgState' = "open"
                  /\ segments' = r.segments
                  /\ segmentsNil' = FALSE
                  /\ registered' = TRUE
                  /\ lastCompactionCall' = clock
                  /\ lastCleanupCall' = clock
             ELSE UNCHANGED <<sgState, segments, segmentsNil, registered,
                              lastCompactionCall, lastCleanupCall>>
          /\ last' = [op |-> "newSegmentGroup", err |-> r.err,
                      before |-> files, fault |-> fault]
          /\ runs' = Append(runs, [ok |-> r.err = "", segments |-> r.segments,
                                   files |-> r.files, before |-> files,
                                   fault |-> fault])
    /\ UNCHANGED <<clock, procVars>>

\* the process stops without a shutdown; the directory stays as it is
Exit ==
    /\ sgState = "open"
    /\ sgState' = "none"
    /\ segments' = <<>>
    /\ segmentsNil' = TRUE
    /\ registered' = FALSE
    /\ last' = [op |-> "exit"]
    /\ UNCHANGED <<files, runs>>
    /\ UNCHANGED <<timeVars, procVars>>

\* the flusher writes the complete file of a new (newest) segment, once
\* the segments it wrote before are in the sequence
FlusherWrite(id) ==
    /\ sgState = "open"
    /\ \A n \in DOMAIN files :
          /\ \A j \in 1..Len(n.ids) : n.ids[j] < id
          /\ \E i \in 1..Len(segments) :
                segments[i] # NilSegment /\ segments[i].path = n
    /\ files' = [n \in DOMAIN files \cup {SegmentFilename(id)} |->
                    IF n = SegmentFilename(id) THEN n ELSE files[n]]
    /\ last' = [op |-> "flusherWrite"]
    /\ UNCHANGED <<sgState, segments, segmentsNil, registered, runs>>
    /\ UNCHANGED <<timeVars, procVars>>

\* mutant: the new segment takes the place of the newest one
AddOverNewest(path, fault) ==
    /\ sgState = "open"
    /\ Len(segments) < MaxSegs
    /\ LET opened == newSegment(files, path, fault)
       IN IF opened.err
          THEN /\ last' = [op |-> "add", err |-> "init segment"]
               /\ UNCHANGED <<segments, segmentsNil>>
          ELSE /\ segments' = IF segments = <<>> THEN <<opened.seg>>
                              ELSE [segments EXCEPT ![Len(segments)] = opened.seg]
               /\ segmentsNil' = FALSE
               /\ last' = [op |-> "add", err |-> "", path |-> path,
                           late |-> segmentsNil]
    /\ UNCHANGED <<files, sgState, registered, runs>>
    /\ UNCHANGED <<timeVars, procVars>>

\* sg.add(path)
Add(path, fault) ==
    /\ sgState = "open"
    /\ Len(segments) < MaxSegs
    /\ LET opened == newSegment(files, path, fault)
       IN IF opened.err
          THEN /\ last' = [op |-> "add", err |-> "init segment"]
               /\ UNCHANGED <<segments, segmentsNil>>
          ELSE /\ segments' = Append(segments, opened.seg)
               /\ segmentsNil' = FALSE
               /\ last' = [op |-> "add", err |-> "", path |-> path,
                           late |-> segmentsNil]
    /\ UNCHANGED <<files, sgState, registered, runs>>
    /\ UNCHANGED <<timeVars, procVars>>

\* sg.addInitializedSegment(segment)
AddInitializedSegment(seg) ==
    /\ sgState = "open"
    /\ Len(segments) < MaxSegs
    /\ segments' = Append(segments, seg)
    /\ segmentsNil' = FALSE
    /\ last' = [op |-> "addInitializedSegment", err |-> "", seg |-> seg,
                late |-> segmentsNil]
    /\ UNCHANGED <<files, sgState, registered, runs>>
    /\ UNCHANGED <<timeVars, procVars>>

\* sg.get(key)
Get(key) ==
    /\ sgState = "open"
    /\ last' = [op |-> "get", key |-> key, res |-> get(segments, key)]
    /\ UNCHANGED <<files, sgState, segments, segmentsNil, registered, runs>>
    /\ UNCHANGED <<timeVars, procVars>>

\* sg.getErrDeleted(key)
GetErrDeleted(key) ==
    /\ sgState = "open"
    /\ last' = [op |-> "getErrDeleted", key |-> key,
                res |-> getErrDeleted(segments, key)]
    /\ UNCHANGED <<files, sgState, segments, segmentsNil, registered, runs>>
    /\ UNCHANGED <<timeVars, procVars>>

\* sg.getBySecondaryIntoMemory(pos, key, buffer)
GetBySecondaryIntoMemory(key) ==
    /\ sgState = "open"
    /\ last' = [op |-> "getBySecondaryIntoMemory", key |-> key,
                res |-> getBySecondaryIntoMemory(segments, key)]
    /\ UNCHANGED <<files, sgState, segments, segmentsNil, registered, runs>>
    /\ UNCHANGED <<timeVars, procVars>>

\* sg.count()
Count ==
    /\ sgState = "open"
    /\ last' = [op |-> "count", res |-> count(segments)]
    /\ UNCHANGED <<files, sgState, segments, segmentsNil, registered, runs>>
    /\ UNCHANGED <<timeVars, procVars>>

\* the result of shutdown's loop: the sequence it leaves, the number of
\* segments it closed and the error it returns
Closed(segs, closed, err) == [segments |-> segs, closed |-> closed, err |-> err]

\* a variant that goes on closing after a close failed and returns the
\* error at the end
RECURSIVE CloseLoopPastFailure(_, _, _)
CloseLoopPastFailure(segs, i, failAt) ==
    IF i > Len(segs)
    THEN IF failAt \in 1..Len(segs)
         THEN Closed(segs, Len(segs) - 1, "close segment")
         ELSE Closed(<<>>, Len(segs), "")
    ELSE IF segs[i] = NilSegment THEN Closed(segs, i - 1, "panic")
    ELSE IF i = failAt THEN CloseLoopPastFailure(segs, i + 1, failAt)
    ELSE CloseLoopPastFailure([segs EXCEPT ![i] = NilSegment], i + 1, failAt)

\* the loop of shutdown over segs[i..] and sg.segments = nil after it; the
\* close of segs[failAt] fails (failAt = 0: no close fails); closing a nil
\* segment panics
RECURSIVE CloseLoop(_, _, _)
CloseLoop(segs, i, failAt) ==
    IF i > Len(segs) THEN Closed(<<>>, Len(segs), "")
    ELSE IF segs[i] = NilSegment THEN Closed(segs, i - 1, "panic")
    ELSE IF i = failAt THEN Closed(segs, i - 1, "close segment")
    ELSE CloseLoop([segs EXCEPT ![i] = NilSegment], i + 1, failAt)

\* the return of shutdown: its error, the length of the sequence it found
\* and the number of segments it closed
ShutdownReturns(err, n, closed) ==
    [op |-> "shutdown", err |-> err, n |-> n, closed |-> closed]

\* a variant that leaves the slice of nil slots in place
ShutdownKeepingSlice(unregisterErr, cleanerErr, failAt) ==
    /\ sgState = "open"
    /\ failAt <= Len(segments)
    /\ IF unregisterErr
       THEN /\ last' = ShutdownReturns("long-running compaction in progress",
                                       Len(segments), 0)
            /\ UNCHANGED <<segments, segmentsNil, registered>>
       ELSE /\ registered' = FALSE
            /\ IF cleanerErr
               THEN /\ last' = ShutdownReturns("close segment cleaner",
                                               Len(segments), 0)
                    /\ UNCHANGED <<segments, segmentsNil>>
               ELSE LET r == CloseLoop(segments, 1, failAt)
                    IN /\ segments' = IF r.err = ""
                                      THEN [i \in 1..Len(segments) |-> NilSegment]
                                      ELSE r.segments
                       /\ segmentsNil' = segmentsNil
                       /\ last' = ShutdownReturns(r.err, Len(segments), r.closed)
    /\ UNCHANGED <<files, sgState, runs>>
    /\ UNCHANGED <<timeVars, procVars>>

\* sg.shutdown(ctx): unregisterErr says that Unregister fails (the context
\* expired), cleanerErr that segmentCleaner.close fails
Shutdown(unregisterErr, cleanerErr, failAt) ==
    /\ sgState = "open"
    /\ failAt <= Len(segments)
    /\ IF unregisterErr
       THEN /\ last' = ShutdownReturns("long-running compaction in progress",
                                       Len(segments), 0)
            /\ UNCHANGED <<segments, segmentsNil, registered>>
       ELSE /\ registered' = FALSE
            /\ IF cleanerErr
               THEN /\ last' = ShutdownReturns("close segment cleaner",
                                               Len(segments), 0)
                    /\ UNCHANGED <<segments, segmentsNil>>
               ELSE LET r == CloseLoop(segments, 1, failAt)
                    IN /\ segments' = r.segments
                       /\ segmentsNil' = IF r.err = "" THEN TRUE ELSE segmentsNil
                       /\ last' = ShutdownReturns(r.err, Len(segments), r.closed)
    /\ UNCHANGED <<files, sgState, runs>>
    /\ UNCHANGED <<timeVars, procVars>>

(***************************************************************************)
(* Spec: a group constructed over a cleanly stopped directory and used by  *)
(* the flusher, the readers and shutdown.                                  *)
(***************************************************************************)
Init ==
    /\ files \in {DirOf(S) : S \in CleanDirs}
    /\ NoGroup

Next ==
    \/ NewSegmentGroup(NoFault)
    \/ \E id \in Ids : FlusherWrite(id)
    \/ \E id \in Ids :
          \E fault \in {NoFault, "open"} : Add(SegmentFilename(id), fault)
    \/ \E seg \in InitializedSegments : AddInitializedSegment(seg)
    \/ \E key \in Keys : Get(key)
    \/ \E key \in Keys : GetErrDeleted(key)
    \/ Count
    \/ \E unregisterErr \in BOOLEAN :
          \E cleanerErr \in BOOLEAN :
             \E failAt \in 0..(MaxFiles + MaxSegs) :
                Shutdown(unregisterErr, cleanerErr, failAt)

Spec == Init /\ [][Next]_vars

(***************************************************************************)
(* SpecRecovery: recovery run, and run again after the process stopped,    *)
(* over every directory a crash can leave.                                 *)
(***************************************************************************)
InitRecovery ==
    /\ files \in {DirOf(S) : S \in CrashDirs}
    /\ NoGroup

NextRecovery ==
    \/ \E fault \in RecoveryFaults : NewSegmentGroup(fault)
    \/ Exit

SpecRecovery == InitRecovery /\ [][NextRecovery]_vars

(***************************************************************************)
(* SpecRead: the readers run on every sequence of segments.                *)
(***************************************************************************)
InitRead ==
    /\ files = DirOf({})
    /\ sgState = "open"
    /\ segments \in SeqsUpTo(ReadSegments, MaxSegs)
    /\ segmentsNil = FALSE
    /\ registered = TRUE
    /\ last = [op |-> "init"]
    /\ runs = <<>>
    /\ Quiet

NextRead ==
    \/ \E key \in Keys : Get(key)
    \/ \E key \in Keys : GetErrDeleted(key)
    \/ \E key \in Keys : GetBySecondaryIntoMemory(key)
    \/ Count

SpecRead == InitRead /\ [][NextRead]_vars

(***************************************************************************)
(* The collection readers.  A segment of a collection bucket answers       *)
(* getCollection(key) with the list of values it holds for the key, with   *)
(* lsmkv.NotFound or with another error.  A *segment is the position of    *)
(* its slot in the sequence.                                               *)
(***************************************************************************)
\* segmentindex.Strategy of the segments of a collection bucket
Strategies == {"mapcollection", "inverted"}

\* segment.getCollection(key) found the values vs
Found(vs) == [v |-> vs, err |-> "nil"]

\* segment.getCollection(key) returned the error err and no values
NotGot(err) == [v |-> <<>>, err |-> err]

\* what segment.getCollection answers for k1 and for k2
CollectionOutcomes1 ==
    {NotGot("NotFound"), NotGot("IOError"),
     Found(<<>>), Found(<<"a">>), Found(<<"b", "a">>)}

CollectionOutcomes2 == {NotGot("NotFound"), Found(<<"c">>)}

CollectionSegment(strategy, o1, o2) ==
    [path |-> NoName, strategy |-> strategy,
     coll |-> [k \in Keys |-> IF k = "k1" THEN o1 ELSE o2]]

\* the segments of the sequences the collection readers are run on
CollectionSegments ==
    {CollectionSegment(st, o1, o2) :
        st \in Strategies, o1 \in CollectionOutcomes1,
        o2 \in CollectionOutcomes2}

\* segment.getCollection(key)
SegmentGetCollection(seg, key) == seg.coll[key]

\* a variant that puts the values of a newer segment in front
RECURSIVE getCollectionPrepending(_, _, _, _)
getCollectionPrepending(segs, key, i, out) ==
    IF i > Len(segs) THEN Ret(out, "nil")
    ELSE IF segs[i] = NilSegment THEN Panic
    ELSE LET got == SegmentGetCollection(segs[i], key)
         IN IF got.err # "nil"
            THEN IF got.err = "NotFound"
                 THEN getCollectionPrepending(segs, key, i + 1, out)
                 ELSE Ret("nil", got.err)
            ELSE IF Len(out) = 0
            THEN getCollectionPrepending(segs, key, i + 1, got.v)
            ELSE getCollectionPrepending(segs, key, i + 1, got.v \o out)

\* the loop of getCollection from position i on, out being the values
\* collected so far
RECURSIVE getCollectionFrom(_, _, _, _)
getCollectionFrom(segs, key, i, out) ==
    IF i > Len(segs) THEN Ret(out, "nil")
    ELSE IF segs[i] = NilSegment THEN Panic
    ELSE LET got == SegmentGetCollection(segs[i], key)
         IN IF got.err # "nil"
            THEN IF got.err = "NotFound"
                 THEN getCollectionFrom(segs, key, i + 1, out)
                 ELSE Ret("nil", got.err)
            ELSE IF Len(out) = 0
            THEN getCollectionFrom(segs, key, i + 1, got.v)
            ELSE getCollectionFrom(segs, key, i + 1, out \o got.v)

\* sg.getCollection(key)
getCollection(segs, key) == getCollectionFrom(segs, key, 1, <<>>)

\* what getCollectionAndSegments returns: out[:i], segments[:i], err
RetLayers(out, segs, err) == [out |-> out, segments |-> segs, err |-> err]

\* a variant that leaves out every segment that reports NotFound
RECURSIVE getCollectionAndSegmentsSkipping(_, _, _, _, _)
getCollectionAndSegmentsSkipping(segs, key, i, out, found) ==
    IF i > Len(segs) THEN RetLayers(out, found, "nil")
    ELSE IF segs[i] = NilSegment
    THEN RetLayers("panic", "panic", "panic")
    ELSE LET got == SegmentGetCollection(segs[i], key)
         IN IF got.err # "nil" /\ got.err # "NotFound"
            THEN RetLayers("nil", "nil", got.err)
            ELSE IF got.err # "nil"
            THEN getCollectionAndSegmentsSkipping(segs, key, i + 1, out, found)
            ELSE getCollectionAndSegmentsSkipping(
                     segs, key, i + 1, Append(out, got.v), Append(found, i))

\* the loop of getCollectionAndSegments from position i on; out and found
\* are out[:i] and segments[:i] of the code
RECURSIVE getCollectionAndSegmentsFrom(_, _, _, _, _)
getCollectionAndSegmentsFrom(segs, key, i, out, found) ==
    IF i > Len(segs) THEN RetLayers(out, found, "nil")
    ELSE IF segs[i] = NilSegment
    THEN RetLayers("panic", "panic", "panic")
    ELSE LET got == SegmentGetCollection(segs[i], key)
         IN IF got.err # "nil" /\ got.err # "NotFound"
            THEN RetLayers("nil", "nil", got.err)
            ELSE IF got.err # "nil" /\ segs[i].strategy # "inverted"
            THEN getCollectionAndSegmentsFrom(segs, key, i + 1, out, found)
            ELSE getCollectionAndSegmentsFrom(
                     segs, key, i + 1, Append(out, got.v), Append(found, i))

\* sg.getCollectionAndSegments(key)
getCollectionAndSegments(segs, key) ==
    getCollectionAndSegmentsFrom(segs, key, 1, <<>>, <<>>)

\* sg.getCollection(key)
GetCollection(key) ==
    /\ sgState = "open"
    /\ last' = [op |-> "getCollection", key |-> key,
                res |-> getCollection(segments, key)]
    /\ UNCHANGED <<files, sgState, segments, segmentsNil, registered, runs>>
    /\ UNCHANGED <<timeVars, procVars>>

\* sg.getCollectionAndSegments(key)
GetCollectionAndSegments(key) ==
    /\ sgState = "open"
    /\ last' = [op |-> "getCollectionAndSegments", key |-> key,
                res |-> getCollectionAndSegments(segments, key)]
    /\ UNCHANGED <<files, sgState, segments, segmentsNil, registered, runs>>
    /\ UNCHANGED <<timeVars, procVars>>

(***************************************************************************)
(* SpecCollection: the collection readers run on every sequence of         *)
(* collection segments.                                                    *)
(***************************************************************************)
InitCollection ==
    /\ files = DirOf({})
    /\ sgState = "open"
    /\ segments \in SeqsUpTo(CollectionSegments, MaxSegs)
    /\ segmentsNil = FALSE
    /\ registered = TRUE
    /\ last = [op |-> "init"]
    /\ runs = <<>>
    /\ Quiet

NextCollection ==
    \/ \E key \in Keys : GetCollection(key)
    \/ \E key \in Keys : GetCollectionAndSegments(key)

SpecCollection == InitCollection /\ [][NextCollection]_vars

(***************************************************************************)
(* The maintenance tick: compactOrCleanup, called by the loop of the cycle *)
(* manager.  Time is counted in hours.                                     *)
(***************************************************************************)
\* forceCleanupInterval := time.Hour * 12
ForceCleanupInterval == 12

\* the steps by which the clock advances
Durations == {1, ForceCleanupInterval}

\* a variant that forces cleanup whenever it is overdue
CleanupFirstWheneverOverdue(now, cleanupCall, compactionCall) ==
    now - cleanupCall > ForceCleanupInterval

\* a variant that forces cleanup whatever the time since it was called
CleanupFirstWhateverTheTime(now, cleanupCall, compactionCall) ==
    cleanupCall < compactionCall

\* a variant that never forces cleanup
CleanupNeverFirst(now, cleanupCall, compactionCall) == FALSE

\* time.Since(sg.lastCleanupCall) > forceCleanupInterval &&
\*     sg.lastCleanupCall.Before(sg.lastCompactionCall)
CleanupFirst(now, cleanupCall, compactionCall) ==
    /\ now - cleanupCall > ForceCleanupInterval
    /\ cleanupCall < compactionCall

\* return cleanup() || compact()  /  return compact() || cleanup()
FirstChoice(now, cleanupCall, compactionCall) ==
    IF CleanupFirst(now, cleanupCall, compactionCall)
    THEN "cleanup" ELSE "compaction"

SecondChoice(first) == IF first = "cleanup" THEN "compaction" ELSE "cleanup"

\* what a closure returned: the pass, the boolean it returned and whether
\* compactOnce / cleanupOnce had returned an error, which the closure logs
Returned(pass, didWork, err) ==
    [pass |-> pass, didWork |-> didWork, err |-> err]

\* the value of a() || b(), ran being what the closures called returned
TickResult(ran) ==
    ran[1].didWork \/ (Len(ran) > 1 /\ ran[2].didWork)

\* the closures compact and cleanup up to their call of compactOnce /
\* cleanupOnce: the timestamp of the pass is set to now; ran is what the
\* closures called before in this tick returned
StartPass(pass, choice, ran) ==
    /\ IF pass = "compaction"
       THEN lastCompactionCall' = clock /\ UNCHANGED lastCleanupCall
       ELSE lastCleanupCall' = clock /\ UNCHANGED lastCompactionCall
    /\ running' = [running EXCEPT ![pass] = @ + 1]
    /\ pc' = [pc EXCEPT !["cycle"] = choice]
    /\ loc' = [loc EXCEPT !["cycle"] =
                  [at |-> "start", pass |-> pass, ran |-> ran]]

\* the cycle manager calls a registered callback from its loop, one call at
\* a time
CallbackDue == registered /\ pc["cycle"] = "idle"

\* the cycle manager calls compactOrCleanup, which starts its first choice;
\* last records the choice and the time of the call
TickStart ==
    /\ sgState = "open"
    /\ CallbackDue
    /\ LET first == FirstChoice(clock, lastCleanupCall, lastCompactionCall)
       IN /\ StartPass(first, "first", <<>>)
          /\ last' = [op |-> "tick", first |-> first, at |-> clock]
    /\ UNCHANGED <<files, sgState, segments, segmentsNil, registered, runs,
                   clock, maintenanceLock>>

\* compactOnce / cleanupOnce taken as a whole: the pass runs to its end and
\* reports whether it did work, or fails, which reports no work
PassRuns(didWork, err) ==
    /\ pc["cycle"] \in {"first", "second"}
    /\ loc["cycle"].at = "start"
    /\ err => ~didWork
    /\ loc' = [loc EXCEPT !["cycle"] =
                  [at |-> "done", pass |-> @.pass, ran |-> @.ran,
                   didWork |-> didWork, err |-> err]]
    /\ UNCHANGED <<groupVars, timeVars, maintenanceLock, running, pc>>

\* a variant in which the first choice is never followed by the second
PassReturnsStopping ==
    /\ pc["cycle"] \in {"first", "second"}
    /\ loc["cycle"].at = "done"
    /\ running' = [running EXCEPT ![loc["cycle"].pass] = @ - 1]
    /\ LET l == loc["cycle"]
           ran == Append(l.ran, Returned(l.pass, l.didWork, l.err))
       IN /\ pc' = [pc EXCEPT !["cycle"] = "return"]
          /\ loc' = [loc EXCEPT !["cycle"] =
                        [at |-> "return", ran |-> ran,
                         result |-> TickResult(ran)]]
    /\ UNCHANGED <<groupVars, timeVars, maintenanceLock>>

\* the closure returns, having logged an error: a first choice that did no
\* work is followed by the second, anything else ends a() || b() with its
\* value
PassReturns ==
    /\ pc["cycle"] \in {"first", "second"}
    /\ loc["cycle"].at = "done"
    /\ running' = [running EXCEPT ![loc["cycle"].pass] = @ - 1]
    /\ LET l == loc["cycle"]
           ran == Append(l.ran, Returned(l.pass, l.didWork, l.err))
       IN IF pc["cycle"] = "first" /\ ~l.didWork
          THEN /\ pc' = [pc EXCEPT !["cycle"] = "between"]
               /\ loc' = [loc EXCEPT !["cycle"] =
                             [at |-> "returned", pass |-> l.pass,
                              ran |-> ran]]
          ELSE /\ pc' = [pc EXCEPT !["cycle"] = "return"]
               /\ loc' = [loc EXCEPT !["cycle"] =
                             [at |-> "return", ran |-> ran,
                              result |-> TickResult(ran)]]
    /\ UNCHANGED <<groupVars, timeVars, maintenanceLock>>

\* compactOrCleanup returns its boolean to the cycle manager
TickReturns ==
    /\ pc["cycle"] = "return"
    /\ pc' = [pc EXCEPT !["cycle"] = "idle"]
    /\ loc' = [loc EXCEPT !["cycle"] = NoLocals]
    /\ UNCHANGED <<groupVars, timeVars, maintenanceLock, running>>

\* a variant that starts the second choice while the first is under way
SecondStartUnawaited ==
    /\ pc["cycle"] \in {"first", "between"}
    /\ StartPass(SecondChoice(loc["cycle"].pass), "second", loc["cycle"].ran)
    /\ UNCHANGED <<groupVars, clock, maintenanceLock>>

\* the right operand of ||: the second choice starts
SecondStart ==
    /\ pc["cycle"] = "between"
    /\ StartPass(SecondChoice(loc["cycle"].pass), "second", loc["cycle"].ran)
    /\ UNCHANGED <<groupVars, clock, maintenanceLock>>

\* d hours pass
Tock(d) ==
    /\ clock + d <= MaxClock
    /\ clock' = clock + d
    /\ UNCHANGED <<groupVars, lastCleanupCall, lastCompactionCall, procVars>>

(***************************************************************************)
(* The goroutines step by step: every call takes and releases the          *)
(* maintenance lock as its code does and may be interleaved with the       *)
(* others between any two steps.                                           *)
(***************************************************************************)
\* sync.RWMutex: RLock returns when no goroutine holds the lock for
\* writing, Lock when no goroutine holds it at all
CanRLock == maintenanceLock.writer = "none"

CanLock == maintenanceLock.writer = "none" /\ maintenanceLock.readers = {}

RLocked(g) == [maintenanceLock EXCEPT !.readers = @ \cup {g}]

RUnlocked(g) == [maintenanceLock EXCEPT !.readers = @ \ {g}]

Locked(g) == [maintenanceLock EXCEPT !.writer = g]

\* Unlock by the goroutine that holds the lock for writing
WriterUnlocked == [maintenanceLock EXCEPT !.writer = "none"]

\* goroutine g moves to label with the local variables locals
Goto(g, label, locals) ==
    /\ pc' = [pc EXCEPT ![g] = label]
    /\ loc' = [loc EXCEPT ![g] = locals]

\* the read operations of the group
ReadOps == {"get", "getErrDeleted", "getBySecondaryIntoMemory",
            "getCollection", "getCollectionAndSegments", "roaringSetGet",
            "count", "Len"}

\* how an operation goes through the sequence: from the newest segment
\* down by index, from the oldest up by range, or not at all (Len)
Walk(op) ==
    IF op \in {"get", "getErrDeleted", "getBySecondaryIntoMemory"} THEN "down"
    ELSE IF op = "Len" THEN "none"
    ELSE "up"

\* a variant that does not wait for the writer
ReaderRLockUnchecked(op) ==
    /\ sgState = "open"
    /\ pc["reader"] = "idle"
    /\ maintenanceLock' = RLocked("reader")
    /\ Goto("reader", "locked", [at |-> "locked", op |-> op])
    /\ UNCHANGED <<groupVars, timeVars, running>>

\* sg.maintenanceLock.RLock() at the start of a read operation
ReaderRLock(op) ==
    /\ sgState = "open"
    /\ pc["reader"] = "idle"
    /\ CanRLock
    /\ maintenanceLock' = RLocked("reader")
    /\ Goto("reader", "locked", [at |-> "locked", op |-> op])
    /\ UNCHANGED <<groupVars, timeVars, running>>

\* the first access to the sequence: len(sg.segments) / range sg.segments;
\* seen is the sequence as it is then
ReaderLen ==
    /\ pc["reader"] = "locked"
    /\ LET op == loc["reader"].op
           n == Len(segments)
       IN IF Walk(op) = "none" \/ n = 0
          THEN Goto("reader", "return", [at |-> "return", seen |-> segments])
          ELSE Goto("reader", "walk",
                    [at |-> "walk", walk |-> Walk(op), seen |-> segments,
                     i |-> IF Walk(op) = "down" THEN n ELSE 1])
    /\ UNCHANGED <<groupVars, timeVars, maintenanceLock, running>>

\* one iteration of the loop: the segment at i is accessed; found says
\* that a loop from the newest segment down ends here
ReaderAccess(found) ==
    /\ pc["reader"] = "walk"
    /\ LET l == loc["reader"]
           next == IF l.walk = "down" THEN l.i - 1 ELSE l.i + 1
       IN IF (l.walk = "down" /\ found) \/ next < 1 \/ next > Len(l.seen)
          THEN Goto("reader", "return", [at |-> "return", seen |-> l.seen])
          ELSE Goto("reader", "walk", [l EXCEPT !.i = next])
    /\ UNCHANGED <<groupVars, timeVars, maintenanceLock, running>>

\* defer sg.maintenanceLock.RUnlock(): the operation returns
ReaderRUnlock ==
    /\ pc["reader"] = "return"
    /\ maintenanceLock' = RUnlocked("reader")
    /\ Goto("reader", "idle", NoLocals)
    /\ UNCHANGED <<groupVars, timeVars, running>>

\* no slot of the sequence holds the segment of the file at path
Unhanded(path) ==
    \A i \in 1..Len(segments) :
        IF segments[i] = NilSegment THEN TRUE ELSE segments[i].path # path

\* the caller of addInitializedSegment has a segment to hand over
HasInitialized(op) ==
    op = "addInitializedSegment" =>
        \E id \in Ids : /\ SegmentFilename(id) \in DOMAIN files
                        /\ Unhanded(SegmentFilename(id))

\* a variant that takes the lock as a reader would
AddLockShared(op) ==
    /\ sgState = "open"
    /\ pc["flusher"] = "idle"
    /\ Len(segments) < MaxSegs
    /\ HasInitialized(op)
    /\ CanRLock
    /\ maintenanceLock' = Locked("flusher")
    /\ Goto("flusher", "locked", [at |-> "locked", op |-> op])
    /\ UNCHANGED <<groupVars, timeVars, running>>

\* sg.maintenanceLock.Lock() at the start of add / addInitializedSegment
AddLock(op) ==
    /\ sgState = "open"
    /\ pc["flusher"] = "idle"
    /\ Len(segments) < MaxSegs
    /\ HasInitialized(op)
    /\ CanLock
    /\ maintenanceLock' = Locked("flusher")
    /\ Goto("flusher", "locked", [at |-> "locked", op |-> op])
    /\ UNCHANGED <<groupVars, timeVars, running>>

\* add(path) under the lock: newSegment, append, and the deferred Unlock;
\* the flusher hands a file over once
AddAppend(path, fault) ==
    /\ pc["flusher"] = "locked"
    /\ loc["flusher"].op = "add"
    /\ Unhanded(path)
    /\ LET opened == newSegment(files, path, fault)
       IN IF opened.err
          THEN UNCHANGED <<segments, segmentsNil>>
          ELSE /\ segments' = Append(segments, opened.seg)
               /\ segmentsNil' = FALSE
    /\ maintenanceLock' = WriterUnlocked
    /\ Goto("flusher", "idle", NoLocals)
    /\ UNCHANGED <<files, sgState, registered, last, runs, timeVars, running>>

\* addInitializedSegment(segment) under the lock: append, and the deferred
\* Unlock; the segment is the one the caller opened from the file at path
AddInitializedAppend(path) ==
    /\ pc["flusher"] = "locked"
    /\ loc["flusher"].op = "addInitializedSegment"
    /\ path \in DOMAIN files
    /\ Unhanded(path)
    /\ segments' = Append(segments, newSegment(files, path, NoFault).seg)
    /\ segmentsNil' = FALSE
    /\ maintenanceLock' = WriterUnlocked
    /\ Goto("flusher", "idle", NoLocals)
    /\ UNCHANGED <<files, sgState, registered, last, runs, timeVars, running>>

\* a variant that takes the lock before it unregisters the callback
ShutdownOrderLockFirst == <<"lock", "unregister", "cleaner", "close">>

\* the statements of shutdown in their order: Unregister,
\* segmentCleaner.close, maintenanceLock.Lock, the loop that closes
ShutdownOrder == <<"unregister", "cleaner", "lock", "close">>

\* the statement after the one at label
After(label) ==
    ShutdownOrder[1 + CHOOSE i \in 1..Len(ShutdownOrder) : ShutdownOrder[i] = label]

\* shutdown moves on to the statement after the one at its label
ShutdownGoesOn(locals) ==
    Goto("closer", After(pc["closer"]), [locals EXCEPT !.i = 1])

\* shutdown returns err, with the deferred Unlock if it holds the lock
ShutdownReturn(err, n, closed) ==
    /\ last' = ShutdownReturns(err, n, closed)
    /\ maintenanceLock' = IF maintenanceLock.writer = "closer"
                          THEN WriterUnlocked ELSE maintenanceLock
    /\ Goto("closer", "idle", NoLocals)

\* shutdown(ctx) is called; deadline says that ctx can expire
ShutdownCall(deadline) ==
    /\ sgState = "open"
    /\ pc["closer"] = "idle"
    /\ ~segmentsNil
    /\ Goto("closer", ShutdownOrder[1],
            [at |-> "shutdown", deadline |-> deadline, locked |-> FALSE,
             i |-> 1])
    /\ UNCHANGED <<groupVars, timeVars, maintenanceLock, running>>

\* Unregister(ctx) returns nil: the cycle manager is not in the callback
ShutdownUnregister ==
    /\ pc["closer"] = "unregister"
    /\ pc["cycle"] = "idle"
    /\ registered' = FALSE
    /\ ShutdownGoesOn(loc["closer"])
    /\ UNCHANGED <<files, sgState, segments, segmentsNil, last, runs,
                   timeVars, maintenanceLock, running>>

\* a variant that drops the sequence when Unregister fails
ShutdownCtxExpiresDropping ==
    /\ pc["closer"] = "unregister"
    /\ pc["cycle"] # "idle"
    /\ loc["closer"].deadline
    /\ segments' = <<>>
    /\ segmentsNil' = TRUE
    /\ ShutdownReturn("long-running compaction in progress", Len(segments), 0)
    /\ UNCHANGED <<files, sgState, registered, runs, timeVars, running>>

\* Unregister(ctx) returns an error: ctx expired while the cycle manager
\* was in the callback
ShutdownCtxExpires ==
    /\ pc["closer"] = "unregister"
    /\ pc["cycle"] # "idle"
    /\ loc["closer"].deadline
    /\ ShutdownReturn("long-running compaction in progress", Len(segments), 0)
    /\ UNCHANGED <<files, sgState, segments, segmentsNil, registered, runs,
                   timeVars, running>>

\* sg.segmentCleaner.close()
ShutdownCloseCleaner(cleanerErr) ==
    /\ pc["closer"] = "cleaner"
    /\ IF cleanerErr
       THEN ShutdownReturn("close segment cleaner", Len(segments), 0)
       ELSE /\ ShutdownGoesOn(loc["closer"])
            /\ UNCHANGED <<last, maintenanceLock>>
    /\ UNCHANGED <<files, sgState, segments, segmentsNil, registered, runs,
                   timeVars, running>>

\* sg.maintenanceLock.Lock()
ShutdownLock ==
    /\ pc["closer"] = "lock"
    /\ CanLock
    /\ maintenanceLock' = Locked("closer")
    /\ ShutdownGoesOn([loc["closer"] EXCEPT !.locked = TRUE])
    /\ UNCHANGED <<groupVars, timeVars, running>>

\* one iteration of the loop: seg.close() and sg.segments[i] = nil
ShutdownCloseSegment(fails) ==
    /\ pc["closer"] = "close"
    /\ loc["closer"].i <= Len(segments)
    /\ LET i == loc["closer"].i
       IN IF segments[i] = NilSegment
          THEN /\ ShutdownReturn("panic", Len(segments), i - 1)
               /\ UNCHANGED segments
          ELSE IF fails
          THEN /\ ShutdownReturn("close segment", Len(segments), i - 1)
               /\ UNCHANGED segments
          ELSE /\ segments' = [segments EXCEPT ![i] = NilSegment]
               /\ Goto("closer", "close", [loc["closer"] EXCEPT !.i = i + 1])
               /\ UNCHANGED <<last, maintenanceLock>>
    /\ UNCHANGED <<files, sgState, segmentsNil, registered, runs, timeVars,
                   running>>

\* after the loop: sg.segments = nil, return nil
ShutdownFinish ==
    /\ pc["closer"] = "close"
    /\ loc["closer"].i > Len(segments)
    /\ segments' = <<>>
    /\ segmentsNil' = TRUE
    /\ ShutdownReturn("", Len(segments), Len(segments))
    /\ UNCHANGED <<files, sgState, registered, runs, timeVars, running>>

\* the segment a compaction writes for left and right: per key the entry
\* of right, or that of left if right has none; with purge the tombstones
\* are left out (keepTombstones = false, for a pair at the bottom of the
\* sequence)
Merged(left, right, purge) ==
    LET newest == [k \in Keys |-> IF right.data[k] # "NotFound"
                                  THEN right.data[k] ELSE left.data[k]]
    IN Segment(right.path,
               [ids |-> left.content.ids \o right.content.ids,
                exts |-> <<".db", ".tmp">>],
               [k \in Keys |-> IF purge /\ newest[k] = "Deleted"
                               THEN "NotFound" ELSE newest[k]],
               left.countNetAdditions + right.countNetAdditions)

\* the compaction pass is at label at
Compacting(at) ==
    /\ pc["cycle"] \in {"first", "second"}
    /\ loc["cycle"].pass = "compaction"
    /\ loc["cycle"].at = at

\* compactOnce takes the read lock to look for a pair of segments
CompactRLock ==
    /\ Compacting("start")
    /\ CanRLock
    /\ maintenanceLock' = RLocked("cycle")
    /\ loc' = [loc EXCEPT !["cycle"].at = "staging"]
    /\ UNCHANGED <<groupVars, timeVars, running, pc>>

\* no pair is eligible: compactOnce returns false
CompactNothing ==
    /\ Compacting("staging")
    /\ maintenanceLock' = RUnlocked("cycle")
    /\ loc' = [loc EXCEPT !["cycle"] =
                  [at |-> "done", pass |-> "compaction", ran |-> @.ran,
                   didWork |-> FALSE, err |-> FALSE]]
    /\ UNCHANGED <<groupVars, timeVars, running, pc>>

\* the pair at i and i+1 is eligible: it is merged, without any lock, into
\* the output
CompactMerge(i, purge) ==
    /\ Compacting("staging")
    /\ i + 1 <= Len(segments)
    /\ segments[i] # NilSegment /\ segments[i + 1] # NilSegment
    /\ purge => i = 1
    /\ maintenanceLock' = RUnlocked("cycle")
    /\ loc' = [loc EXCEPT !["cycle"] =
                  [at |-> "merged", pass |-> "compaction", ran |-> @.ran,
                   pair |-> i,
                   output |-> Merged(segments[i], segments[i + 1], purge)]]
    /\ UNCHANGED <<groupVars, timeVars, running, pc>>

\* the publication takes the write lock
CompactPublishLock ==
    /\ Compacting("merged")
    /\ CanLock
    /\ maintenanceLock' = Locked("cycle")
    /\ loc' = [loc EXCEPT !["cycle"] =
                  [at |-> "publishing", pass |-> "compaction",
                   ran |-> @.ran, pair |-> @.pair, output |-> @.output, before |-> segments]]
    /\ UNCHANGED <<groupVars, timeVars, running, pc>>

\* the output takes the slot of the right input
CompactReplaceRight ==
    /\ Compacting("publishing")
    /\ segments' = [segments EXCEPT ![loc["cycle"].pair + 1] = loc["cycle"].output]
    /\ loc' = [loc EXCEPT !["cycle"].at = "replaced"]
    /\ UNCHANGED <<files, sgState, segmentsNil, registered, last, runs,
                   timeVars, maintenanceLock, running, pc>>

\* the slot of the left input is cut out of the sequence and its file is
\* gone, the file of the right input holds the output, the write lock is
\* released and compactOnce returns true
CompactDropLeft ==
    /\ Compacting("replaced")
    /\ LET i == loc["cycle"].pair
           output == loc["cycle"].output
       IN /\ segments' = SubSeq(segments, 1, i - 1)
                            \o SubSeq(segments, i + 1, Len(segments))
          /\ files' = [n \in DOMAIN files \ {segments[i].path} |->
                          IF n = output.path THEN output.content ELSE files[n]]
    /\ maintenanceLock' = WriterUnlocked
    /\ loc' = [loc EXCEPT !["cycle"] =
                  [at |-> "done", pass |-> "compaction", ran |-> @.ran,
                   didWork |-> TRUE, err |-> FALSE]]
    /\ UNCHANGED <<sgState, segmentsNil, registered, last, runs,
                   timeVars, running, pc>>

\* the cleanup pass taken as a whole
CleanupRuns(didWork, err) ==
    /\ pc["cycle"] \in {"first", "second"}
    /\ loc["cycle"].pass = "cleanup"
    /\ PassRuns(didWork, err)

(***************************************************************************)
(* SpecConcurrent: the reader, the flusher, shutdown and the maintenance   *)
(* tick run concurrently on the group newSegmentGroup constructed over a   *)
(* cleanly stopped directory.  No close fails and no time passes.          *)
(***************************************************************************)
InitConcurrent ==
    /\ \E S \in CleanDirs :
          /\ files = Recover(DirOf(S), NoFault).files
          /\ segments = Recover(DirOf(S), NoFault).segments
    /\ sgState = "open"
    /\ segmentsNil = FALSE
    /\ registered = TRUE
    /\ last = [op |-> "init"]
    /\ runs = <<>>
    /\ Quiet

NextConcurrent ==
    \/ \E op \in ReadOps : ReaderRLock(op)
    \/ ReaderLen
    \/ \E found \in BOOLEAN : ReaderAccess(found)
    \/ ReaderRUnlock
    \/ \E id \in Ids : FlusherWrite(id)
    \/ \E op \in {"add", "addInitializedSegment"} : AddLock(op)
    \/ \E id \in Ids : AddAppend(SegmentFilename(id), NoFault)
    \/ \E id \in Ids : AddInitializedAppend(SegmentFilename(id))
    \/ \E deadline \in BOOLEAN : ShutdownCall(deadline)
    \/ ShutdownUnregister
    \/ ShutdownCtxExpires
    \/ \E cleanerErr \in BOOLEAN : ShutdownCloseCleaner(cleanerErr)
    \/ ShutdownLock
    \/ ShutdownCloseSegment(FALSE)
    \/ ShutdownFinish
    \/ TickStart
    \/ CompactRLock
    \/ CompactNothing
    \/ \E i \in 1..MaxSegs : \E purge \in BOOLEAN : CompactMerge(i, purge)
    \/ CompactPublishLock
    \/ CompactReplaceRight
    \/ CompactDropLeft
    \/ \E didWork, err \in BOOLEAN : CleanupRuns(didWork, err)
    \/ PassReturns
    \/ SecondStart
    \/ TickReturns

SpecConcurrent == InitConcurrent /\ [][NextConcurrent]_vars

(***************************************************************************)
(* FairSpecConcurrent: every goroutine that can take a step takes one (the *)
(* steps of one goroutine exclude each other by its position).  A          *)
(* goroutine blocked in Lock or RLock gets the lock if it is free again    *)
(* and again (sync.RWMutex lets no waiter starve), and Unregister returns  *)
(* if the callback is idle again and again.  Nothing makes a caller start  *)
(* an operation or a context expire.                                       *)
(***************************************************************************)
FairnessConcurrent ==
    /\ WF_vars(\/ ReaderLen
                \/ \E found \in BOOLEAN : ReaderAccess(found)
                \/ ReaderRUnlock)
    /\ WF_vars(\E id \in Ids :
                  \/ AddAppend(SegmentFilename(id), NoFault)
                  \/ AddInitializedAppend(SegmentFilename(id)))
    /\ SF_vars(ShutdownUnregister)
    /\ SF_vars(ShutdownLock)
    /\ WF_vars(\/ \E cleanerErr \in BOOLEAN : ShutdownCloseCleaner(cleanerErr)
                \/ ShutdownCloseSegment(FALSE)
                \/ ShutdownFinish)
    /\ SF_vars(CompactRLock)
    /\ SF_vars(CompactPublishLock)
    /\ WF_vars(\/ CompactNothing
                \/ \E i \in 1..MaxSegs : \E purge \in BOOLEAN :
                      CompactMerge(i, purge)
                \/ CompactReplaceRight
                \/ CompactDropLeft
                \/ \E didWork, err \in BOOLEAN : CleanupRuns(didWork, err)
                \/ PassReturns
                \/ SecondStart
                \/ TickReturns)

FairSpecConcurrent == SpecConcurrent /\ FairnessConcurrent

(***************************************************************************)
(* SpecMaintenance: a group is constructed and the cycle manager calls its *)
(* tick while time passes.                                                 *)
(***************************************************************************)
InitMaintenance ==
    /\ files = DirOf({})
    /\ NoGroup

NextMaintenance ==
    \/ NewSegmentGroup(NoFault)
    \/ \E d \in Durations : Tock(d)
    \/ TickStart
    \/ \E didWork, err \in BOOLEAN : PassRuns(didWork, err)
    \/ PassReturns
    \/ SecondStart
    \/ TickReturns

SpecMaintenance == InitMaintenance /\ [][NextMaintenance]_vars

\* the cycle manager keeps calling the tick and every pass comes to an end
FairSpecMaintenance ==
    /\ SpecMaintenance
    /\ WF_vars(TickStart)
    /\ WF_vars(\E didWork, err \in BOOLEAN : PassRuns(didWork, err))
    /\ WF_vars(PassReturns)
    /\ WF_vars(SecondStart)
    /\ WF_vars(TickReturns)

(***************************************************************************)
(* Properties of the readers.                                              *)
(***************************************************************************)
\* the position of the newest segment of segs that contains key, as a value
\* or as a tombstone; 0 if no segment contains it
NewestOccurrence(segs, key) ==
    LET holders == {i \in 1..Len(segs) : segs[i].data[key] # "NotFound"}
    IN IF holders = {} THEN 0
       ELSE CHOOSE i \in holders : \A j \in holders : j <= i

\* C1 (Replace precedence): get(k) returns the value held by the newest
\* segment that contains k; it returns absent (nil, no error) if that newest
\* occurrence is a tombstone or if no segment contains k, whatever older
\* segments hold.
C1_ReplacePrecedence ==
    last.op = "get" =>
        LET n == NewestOccurrence(segments, last.key)
        IN /\ n = 0 => last.res = Ret("nil", "nil")
           /\ n > 0 /\ segments[n].data[last.key] = "Deleted" =>
                 last.res = Ret("nil", "nil")
           /\ n > 0 /\ segments[n].data[last.key] \in Values =>
                 last.res = Ret(segments[n].data[last.key], "nil")

\* a get answered absent by the tombstone of the second of three segments,
\* above a value of the oldest segment and below a segment without the key
C1_Witness ==
    /\ last.op = "get"
    /\ Len(segments) = 3
    /\ segments[1].data[last.key] \in Values
    /\ segments[2].data[last.key] = "Deleted"
    /\ segments[3].data[last.key] = "NotFound"
    /\ last.res = Ret("nil", "nil")

\* C2 (get_err_deleted): getErrDeleted(k) returns the Deleted error exactly
\* when the newest segment containing k holds a tombstone, the NotFound
\* error exactly when no segment contains k, and otherwise the value of the
\* newest segment containing k; wherever get returns a value, getErrDeleted
\* returns the same value.
C2_GetErrDeleted ==
    last.op = "getErrDeleted" =>
        LET n == NewestOccurrence(segments, last.key)
        IN /\ last.res = Ret("nil", "Deleted") <=>
                 (n > 0 /\ segments[n].data[last.key] = "Deleted")
           /\ last.res = Ret("nil", "NotFound") <=> n = 0
           /\ n > 0 /\ segments[n].data[last.key] \in Values =>
                 last.res = Ret(segments[n].data[last.key], "nil")
           /\ get(segments, last.key).v \in Values =>
                 last.res = get(segments, last.key)

\* a getErrDeleted answered NotFound by three segments none of which
\* contains the key, one of them containing the other key
C2_Witness ==
    /\ last.op = "getErrDeleted"
    /\ Len(segments) = 3
    /\ \A i \in 1..3 : segments[i].data[last.key] = "NotFound"
    /\ \E i \in 1..3 : \E k \in Keys : segments[i].data[k] # "NotFound"
    /\ last.res = Ret("nil", "NotFound")

(***************************************************************************)
(* Properties of recovery.                                                 *)
(***************************************************************************)
\* the positions of segs that hold the segment opened from path
SlotsHolding(segs, path) ==
    {i \in 1..Len(segs) : segs[i] # NilSegment /\ segs[i].path = path}

\* the identifier of a segment: that of the file it was opened from
SegmentIdOf(seg) == seg.path.ids[1]

IsWal(n) == Ext(n) = ".wal"

\* the segment files pass 1 claims in directory d: the right input of a
\* compaction output whose left input is gone
ClaimedByPass1(d) ==
    {SegmentFilename(n.ids[2]) :
        n \in {m \in DOMAIN d : IsCompactionTmp(m)
                                   /\ SegmentFilename(m.ids[1]) \notin DOMAIN d}}

\* the last run of recovery succeeded, under no I/O failure
RecoveredCleanly ==
    /\ last.op = "newSegmentGroup"
    /\ last.fault = NoFault
    /\ last.err = ""

\* C3 (crash-idempotent recovery): when recovery succeeds on a directory
\* and is run again on the directory it left (no writes in between, no I/O
\* failure in either run), the second run yields the same ordered segment
\* sequence and leaves the same set of files as the first.
C3_CrashIdempotentRecovery ==
    \A i \in 1..(Len(runs) - 1) :
        (/\ runs[i].ok /\ runs[i].fault = NoFault
         /\ runs[i + 1].ok /\ runs[i + 1].fault = NoFault
         /\ runs[i + 1].before = runs[i].files)
        => /\ runs[i + 1].segments = runs[i].segments
           /\ DOMAIN runs[i + 1].files = DOMAIN runs[i].files

\* C4 (monotone in recency): in the sequence a successful recovery
\* produces, the segment at index i has a smaller segment ID than the
\* segment at index i+1, also when some segments come from compaction
\* outputs (pass 1) and others from regular files (pass 2).
C4_MonotoneInRecency ==
    (last.op = "newSegmentGroup" /\ last.err = "") =>
        \A i, j \in 1..Len(segments) :
            i < j => SegmentIdOf(segments[i]) < SegmentIdOf(segments[j])

\* C5 (both inputs present): when segment-A_B.db.tmp is there together
\* with segment-A.db and segment-B.db and no write-ahead log, recovery
\* (under no I/O failure) succeeds, deletes the .tmp file, leaves both .db
\* files as they were and the sequence holds A and B once each, A before B
\* (it is [A, B] if the directory holds nothing else).
C5_BothInputsPresent ==
    (last.op = "newSegmentGroup" /\ last.fault = NoFault) =>
        \A a, b \in Ids :
            LET tmp == CompactionTmpName(a, b)
                left == SegmentFilename(a)
                right == SegmentFilename(b)
            IN (/\ {tmp, left, right} \subseteq DOMAIN last.before
                /\ \A n \in DOMAIN last.before : ~IsWal(n))
               => /\ last.err = ""
                  /\ sgState = "open"
                  /\ tmp \notin DOMAIN files
                  /\ left \in DOMAIN files /\ files[left] = last.before[left]
                  /\ right \in DOMAIN files /\ files[right] = last.before[right]
                  /\ Cardinality(SlotsHolding(segments, left)) = 1
                  /\ Cardinality(SlotsHolding(segments, right)) = 1
                  /\ \A i \in SlotsHolding(segments, left) :
                        \A j \in SlotsHolding(segments, right) :
                           /\ i < j
                           /\ segments[i].content = last.before[left]
                           /\ segments[j].content = last.before[right]
                  /\ DOMAIN last.before = {tmp, left, right} =>
                        /\ Len(segments) = 2
                        /\ segments[1].path = left
                        /\ segments[2].path = right

\* recovery of exactly segment-A.db, segment-B.db and segment-A_B.db.tmp
C5_Witness ==
    /\ RecoveredCleanly
    /\ \E a, b \in Ids :
          /\ a < b
          /\ DOMAIN last.before = {CompactionTmpName(a, b), SegmentFilename(a),
                                   SegmentFilename(b)}
          /\ DOMAIN files = {SegmentFilename(a), SegmentFilename(b)}
          /\ Len(segments) = 2

\* C6 (left input absent): when segment-A_B.db.tmp is there and
\* segment-A.db is not, then with or without segment-B.db recovery (under
\* no I/O failure) succeeds with the .tmp gone, segment-B.db holding the
\* compaction output and segment B exactly once in the sequence, opened
\* from the compaction output: pass 2 does not open the file again.
C6_LeftInputAbsent ==
    (last.op = "newSegmentGroup" /\ last.fault = NoFault) =>
        \A a, b \in Ids :
            LET tmp == CompactionTmpName(a, b)
                right == SegmentFilename(b)
            IN (tmp \in DOMAIN last.before
                    /\ SegmentFilename(a) \notin DOMAIN last.before)
               => /\ last.err = ""
                  /\ sgState = "open"
                  /\ tmp \notin DOMAIN files
                  /\ right \in DOMAIN files
                  /\ files[right] = last.before[tmp]
                  /\ Cardinality(SlotsHolding(segments, right)) = 1
                  /\ \A i \in SlotsHolding(segments, right) :
                        segments[i].content = last.before[tmp]

\* recovery of a directory with segment-A_B.db.tmp and a segment-B.db of
\* the generation before, without segment-A.db
C6_Witness ==
    /\ RecoveredCleanly
    /\ \E a, b \in Ids :
          /\ CompactionTmpName(a, b) \in DOMAIN last.before
          /\ SegmentFilename(a) \notin DOMAIN last.before
          /\ SegmentFilename(b) \in DOMAIN last.before
          /\ files[SegmentFilename(b)] = CompactionTmpName(a, b)
          /\ Cardinality(SlotsHolding(segments, SegmentFilename(b))) = 1

\* C7 (left-only aftermath): when segment-A_B.db.tmp and segment-A.db are
\* there and segment-B.db is not, recovery fails (with the "missing right
\* segment" error unless an I/O failure stopped it before), no group is
\* returned, and the .tmp file and segment-A.db stay as they were.
C7_LeftOnlyAftermath ==
    last.op = "newSegmentGroup" =>
        \A a, b \in Ids :
            LET tmp == CompactionTmpName(a, b)
                left == SegmentFilename(a)
            IN (/\ {tmp, left} \subseteq DOMAIN last.before
                /\ SegmentFilename(b) \notin DOMAIN last.before)
               => /\ last.err # ""
                  /\ last.fault = NoFault => last.err = "missing right segment"
                  /\ sgState = "none"
                  /\ segments = <<>>
                  /\ tmp \in DOMAIN files /\ files[tmp] = last.before[tmp]
                  /\ left \in DOMAIN files /\ files[left] = last.before[left]
                  /\ SegmentFilename(b) \notin DOMAIN files

\* recovery of segment-A.db and segment-A_B.db.tmp failed for the missing
\* right segment
C7_Witness ==
    /\ last.op = "newSegmentGroup"
    /\ last.err = "missing right segment"
    /\ \E a, b \in Ids :
          /\ DOMAIN last.before = {SegmentFilename(a), CompactionTmpName(a, b)}
          /\ DOMAIN files = DOMAIN last.before
    /\ sgState = "none"

\* C8 (WAL-presence rule): after a successful recovery, every .db file of
\* the directory that pass 1 did not claim and that had a sibling .wal is
\* deleted, its .wal is kept and no slot of the sequence holds it; every
\* such .db file without a sibling .wal is kept and held by exactly one
\* slot.
C8_WalPresenceRule ==
    (last.op = "newSegmentGroup" /\ last.err = "") =>
        \A n \in DOMAIN last.before :
            (Ext(n) = ".db" /\ n \notin ClaimedByPass1(last.before)) =>
                IF WalFileName(n) \in DOMAIN last.before
                THEN /\ n \notin DOMAIN files
                     /\ WalFileName(n) \in DOMAIN files
                     /\ SlotsHolding(segments, n) = {}
                ELSE /\ n \in DOMAIN files
                     /\ files[n] = last.before[n]
                     /\ Cardinality(SlotsHolding(segments, n)) = 1

\* recovery of a directory with a segment that has a write-ahead log and a
\* segment that has none
C8_Witness ==
    /\ RecoveredCleanly
    /\ \E i, j \in Ids :
          /\ {SegmentFilename(i), WalName(i), SegmentFilename(j)}
                \subseteq DOMAIN last.before
          /\ WalName(j) \notin DOMAIN last.before
          /\ SegmentFilename(i) \notin DOMAIN files
          /\ WalName(i) \in DOMAIN files
          /\ Len(segments) = 1
          /\ segments[1].path = SegmentFilename(j)

(***************************************************************************)
(* Properties of append and count.                                         *)
(***************************************************************************)
\* C9 (append monotonicity): a successful add(path) or
\* addInitializedSegment(segment) leaves the sequence it found with the new
\* segment added as its last element: the length grows by one and no
\* position changes; an add whose file cannot be opened leaves the sequence
\* as it was.
C9_AppendMonotonicity ==
    [][(last'.op \in {"add", "addInitializedSegment"}) =>
          IF last'.err = ""
          THEN /\ Len(segments') = Len(segments) + 1
               /\ SubSeq(segments', 1, Len(segments)) = segments
               /\ segments'[Len(segments')] # NilSegment
               /\ IF last'.op = "add"
                  THEN /\ segments'[Len(segments')].path = last'.path
                       /\ segments'[Len(segments')].content = files[last'.path]
                  ELSE segments'[Len(segments')] = last'.seg
          ELSE /\ segments' = segments
               /\ segmentsNil' = segmentsNil]_vars

\* an add of the file the flusher wrote, on top of two segments
C9_Witness ==
    /\ last.op = "add"
    /\ last.err = ""
    /\ Len(segments) = 3
    /\ segments[1] # NilSegment
    /\ segments[2] # NilSegment
    /\ segments[3].path = last.path
    /\ \A i \in 1..2 : segments[i].path # last.path

\* the sum of the net additions of the segments in segs[1..n]
RECURSIVE SumOfNetAdditions(_, _)
SumOfNetAdditions(segs, n) ==
    IF n = 0 THEN 0
    ELSE SumOfNetAdditions(segs, n - 1)
            + (IF segs[n] = NilSegment THEN 0 ELSE segs[n].countNetAdditions)

\* C10 (count additivity): in every reachable state count() returns the
\* sum of countNetAdditions over the segments in the sequence (0 for an
\* empty or nil sequence), after any appends and after shutdown.
C10_CountAdditivity ==
    last.op = "count" =>
        /\ ~last.res.panic
        /\ last.res.n = SumOfNetAdditions(segments, Len(segments))

(***************************************************************************)
(* Properties of shutdown.                                                 *)
(***************************************************************************)
\* C11 (shutdown safety): after a shutdown that reached its loop returns,
\* with or without an error, every segment that was in the sequence when
\* it started has been closed, also when the close of one segment failed.
C11_ShutdownSafety ==
    (last.op = "shutdown" /\ last.err \in {"", "close segment"}) =>
        last.closed = last.n

\* C12 (shutdown abort state): when the close of the segment at position j
\* fails, shutdown returns that error having closed the j-1 segments before
\* it and no later one: the slots before j are nil, the segments from j on
\* are the ones that were there, and the sequence has not been set to nil.
C12_ShutdownAbortState ==
    [][(last'.op = "shutdown" /\ last'.err = "close segment") =>
          \E j \in 1..Len(segments) :
             /\ last'.closed = j - 1
             /\ Len(segments') = Len(segments)
             /\ \A i \in 1..(j - 1) : segments'[i] = NilSegment
             /\ \A i \in j..Len(segments) :
                   segments'[i] = segments[i] /\ segments'[i] # NilSegment
             /\ segmentsNil' = segmentsNil
             /\ ~segmentsNil']_vars

\* a shutdown of three segments aborted by the close of the second one
C12_Witness ==
    /\ last.op = "shutdown"
    /\ last.err = "close segment"
    /\ last.n = 3
    /\ last.closed = 1
    /\ segments[1] = NilSegment
    /\ segments[2] # NilSegment
    /\ segments[3] # NilSegment

\* C15 as stated (late flush after shutdown): an add or
\* addInitializedSegment that finds the sequence set to nil by shutdown
\* returns an error and adds nothing.
C15_LateFlushFailsLoudly ==
    [][(segmentsNil /\ sgState = "open"
            /\ last'.op \in {"add", "addInitializedSegment"}) =>
          (last'.err # "" /\ segments' = segments)]_vars

\* C15 as amended: a shutdown that returns no error has closed every
\* segment and set the sequence to nil; an add or addInitializedSegment
\* that finds the sequence nil does not fail for that: it fails only if the
\* file cannot be opened, and otherwise it returns no error and leaves a
\* sequence that holds just the new segment.
C15_LateFlushAppends ==
    [][/\ (last'.op = "shutdown" /\ last'.err = "") =>
            /\ last'.closed = Len(segments)
            /\ segments' = <<>>
            /\ segmentsNil'
       /\ (segmentsNil /\ sgState = "open"
               /\ last'.op \in {"add", "addInitializedSegment"}) =>
            IF last'.err = ""
            THEN /\ Len(segments') = 1
                 /\ segments'[1] # NilSegment
                 /\ ~segmentsNil'
            ELSE /\ last'.op = "add"
                 /\ segments' = segments
                 /\ segmentsNil']_vars

\* an add that found the sequence nil after a shutdown and succeeded
C15_Witness ==
    /\ last.op = "add"
    /\ last.err = ""
    /\ last.late
    /\ registered = FALSE
    /\ Len(segments) = 1
    /\ segments[1].path = last.path

(***************************************************************************)
(* Properties of the maintenance tick.                                     *)
(***************************************************************************)
\* a step in which the cycle manager calls the tick
TickStarts == pc["cycle"] = "idle" /\ pc'["cycle"] = "first"

\* the last cleanup call is no more than 12 hours old
CleanupWithinInterval == clock - lastCleanupCall <= ForceCleanupInterval

\* the last compaction call is more recent than the last cleanup call
CompactionMoreRecent == lastCleanupCall < lastCompactionCall

\* C16 as stated (maintenance policy choice): compaction is the first
\* choice of a tick exactly when the last cleanup call was within 12 hours
\* and the last compaction call was more recent than the last cleanup
\* call; cleanup is the first choice in every other case.
C16_PolicyAsStated ==
    [][TickStarts =>
          (loc'["cycle"].pass = "compaction"
              <=> (CleanupWithinInterval /\ CompactionMoreRecent))]_vars

\* C16 as amended: cleanup is the first choice of a tick exactly when the
\* last cleanup call is more than 12 hours old and the last compaction
\* call was more recent than the last cleanup call; compaction is the
\* first choice in every other case.
C16_PolicyChoice ==
    [][TickStarts =>
          /\ loc'["cycle"].pass \in Passes
          /\ loc'["cycle"].pass = "cleanup"
                <=> (~CleanupWithinInterval /\ CompactionMoreRecent)
          /\ running'[loc'["cycle"].pass] = 1]_vars

\* a tick whose first choice is cleanup, more than 12 hours after the last
\* cleanup call and after a compaction call
C16_Witness ==
    /\ pc["cycle"] = "first"
    /\ loc["cycle"].pass = "cleanup"
    /\ loc["cycle"].at = "start"
    /\ lastCleanupCall = clock
    /\ lastCompactionCall > 0
    /\ clock - lastCompactionCall <= ForceCleanupInterval

\* C17 as stated (cleanup liveness): once more than 12 hours have passed
\* since the last cleanup call, the very next tick calls cleanup before
\* compaction.
C17_NextTickCleansUp ==
    [][(TickStarts /\ ~CleanupWithinInterval) =>
          loc'["cycle"].pass = "cleanup"]_vars

\* C17 as amended: once more than 12 hours have passed since the last
\* cleanup call, a tick calls cleanup first if compaction has been called
\* since that cleanup call; if not, it calls compaction first, which makes
\* the compaction call the more recent one, so that the tick after it
\* calls cleanup first; whatever the compaction passes report, cleanup is
\* called eventually.
C17_CleanupLiveness ==
    /\ [][(TickStarts /\ ~CleanupWithinInterval) =>
             \/ loc'["cycle"].pass = "cleanup"
             \/ /\ ~CompactionMoreRecent
                /\ loc'["cycle"].pass = "compaction"
                /\ lastCleanupCall' < lastCompactionCall'
                /\ lastCleanupCall' = lastCleanupCall]_vars
    /\ (sgState = "open" /\ ~CleanupWithinInterval) ~> (running["cleanup"] > 0)

\* cleanup runs as the first choice of the second tick after it became
\* overdue, the first of them having called compaction
C17_Witness ==
    /\ pc["cycle"] = "first"
    /\ loc["cycle"].pass = "cleanup"
    /\ running["cleanup"] = 1
    /\ lastCompactionCall > ForceCleanupInterval
    /\ lastCleanupCall = clock

\* C18 (mutual exclusion of maintenance): at no time are two maintenance
\* passes of one group under way, be it a compaction and a cleanup or two
\* of a kind; within a tick the second choice starts only when the first
\* has returned.
C18_MutualExclusion ==
    [][/\ running'["compaction"] + running'["cleanup"] <= 1
       /\ (pc["cycle"] # "second" /\ pc'["cycle"] = "second") =>
             /\ running = NoneRunning
             /\ pc["cycle"] = "between"]_vars

\* the second choice of a tick under way after the first returned
C18_Witness ==
    /\ pc["cycle"] = "second"
    /\ loc["cycle"].at = "start"
    /\ running["cleanup"] + running["compaction"] = 1

\* C13 (shutdown ordering and deadlock freedom): shutdown holds the
\* maintenance lock for writing only once the callback is unregistered and
\* never while it waits for Unregister; and under any fair interleaving with
\* the reader, the flusher and a tick in flight, a shutdown that was called
\* returns
C13_ShutdownOrdering ==
    /\ [](maintenanceLock.writer = "closer"
             => ~registered /\ pc["closer"] # "unregister")
    /\ (pc["closer"] # "idle") ~> (pc["closer"] = "idle")

\* shutdown, called without a deadline, waits in Unregister while the
\* compaction pass of a tick holds the maintenance lock for reading
C13_Witness ==
    /\ pc["closer"] = "unregister"
    /\ ~loc["closer"].deadline
    /\ Compacting("staging")
    /\ "cycle" \in maintenanceLock.readers

\* C14 (shutdown under an expired context): when Unregister fails, because
\* the context expired while a maintenance pass was running, shutdown
\* returns the "long-running compaction in progress" error, has not taken
\* the maintenance lock, has closed no segment, and leaves the sequence and
\* the lock as they were, so that read operations go on
C14_ShutdownCtxExpired ==
    [][(pc["closer"] = "unregister" /\ pc'["closer"] = "idle")
         => /\ pc["cycle"] # "idle"
            /\ last' = ShutdownReturns("long-running compaction in progress",
                                       Len(segments), 0)
            /\ ~loc["closer"].locked
            /\ maintenanceLock.writer # "closer"
            /\ maintenanceLock' = maintenanceLock
            /\ segments' = segments
            /\ segmentsNil' = segmentsNil
            /\ \A i \in 1..Len(segments) : segments'[i] # NilSegment
            /\ sgState' = "open"]_vars

\* shutdown has returned the error while the pass is still running, and a
\* reader is going through the segments, which are all still there
C14_Witness ==
    /\ pc["closer"] = "idle"
    /\ last = ShutdownReturns("long-running compaction in progress",
                              Len(segments), 0)
    /\ pc["cycle"] # "idle"
    /\ Len(segments) > 1
    /\ pc["reader"] = "walk"
    /\ loc["reader"].seen = segments

\* the step is one of goroutine g
Steps(g) == pc'[g] # pc[g] \/ loc'[g] # loc[g]

\* a read operation is between its RLock and its return
Reading == pc["reader"] \in {"locked", "walk", "return"}

\* C19 (reader isolation): a read operation holds the maintenance lock for
\* reading from before its first access to the sequence until it returns;
\* add, addInitializedSegment and shutdown change the sequence only while
\* they hold the lock for writing; hence, in any interleaving, the sequence
\* is the one the read operation saw at its first access for as long as the
\* operation lasts, and shutdown is not in its closing loop, nor is any slot
\* nil, during a read operation
C19_ReaderIsolation ==
    /\ [](Reading => /\ "reader" \in maintenanceLock.readers
                      /\ maintenanceLock.writer = "none")
    /\ [](pc["reader"] \in {"walk", "return"}
             => loc["reader"].seen = segments)
    /\ [](Reading => /\ pc["closer"] # "close"
                      /\ \A i \in 1..Len(segments) :
                            segments[i] # NilSegment)
    /\ [][(Steps("flusher") /\ segments' # segments)
             => maintenanceLock.writer = "flusher"]_vars
    /\ [][(Steps("closer")
             /\ (segments' # segments \/ segmentsNil' # segmentsNil))
             => maintenanceLock.writer = "closer"]_vars

\* a read operation is half way through a sequence of two or more segments
\* while shutdown waits for the lock and the flusher has a file to hand over
C19_Witness ==
    /\ pc["reader"] = "walk"
    /\ Len(segments) > 1
    /\ loc["reader"].i < Len(segments)
    /\ pc["closer"] = "lock"
    /\ \E id \in Ids : /\ SegmentFilename(id) \in DOMAIN files
                        /\ Unhanded(SegmentFilename(id))

\* the publication of a compaction holds the lock for writing
Publishing == Compacting("publishing") \/ Compacting("replaced")

\* the sequence before with the pair at i and i+1 replaced by output
Spliced(before, i, output) ==
    SubSeq(before, 1, i - 1) \o <<output>>
        \o SubSeq(before, i + 2, Len(before))

C21_TickFallThrough ==
    /\ pc["cycle"] \in {"between", "second"}
         => /\ Len(loc["cycle"].ran) = 1
            /\ ~loc["cycle"].ran[1].didWork
    /\ pc["cycle"] = "return"
         => LET ran == loc["cycle"].ran
            IN /\ Len(ran) \in {1, 2}
               /\ Len(ran) = 2 <=> ~ran[1].didWork
               /\ ran[1].err => Len(ran) = 2
               /\ Len(ran) = 2 => ran[2].pass = SecondChoice(ran[1].pass)
               /\ loc["cycle"].result \in BOOLEAN
               /\ loc["cycle"].result
                    <=> \E i \in 1..Len(ran) : ran[i].didWork

\* a tick returns true after its first choice failed and its second choice
\* did work
C21_Witness ==
    /\ pc["cycle"] = "return"
    /\ Len(loc["cycle"].ran) = 2
    /\ loc["cycle"].ran[1].err
    /\ loc["cycle"].ran[2].didWork
    /\ loc["cycle"].result

\* the segment at position i holds values for key
Contains(segs, i, key) == SegmentGetCollection(segs[i], key).err = "nil"

\* no segment answers getCollection(key) with an error other than NotFound
NoUnknownError(segs, key) ==
    \A i \in 1..Len(segs) :
        SegmentGetCollection(segs[i], key).err \in {"nil", "NotFound"}

\* the lists of values of the first n segments that hold key, one after
\* the other from the oldest segment to the newest
RECURSIVE Concatenation(_, _, _)
Concatenation(segs, n, key) ==
    IF n = 0 THEN <<>>
    ELSE Concatenation(segs, n - 1, key)
             \o (IF Contains(segs, n, key)
                 THEN SegmentGetCollection(segs[n], key).v ELSE <<>>)

\* C22 (get_collection ordering): on any sequence of segments none of which
\* fails, getCollection(k) returns, without an error, the lists of values
\* of exactly the segments that hold k, one after the other from the oldest
\* segment to the newest; a segment that reports NotFound adds nothing and
\* does not end the walk; the result is empty if no segment holds k
C22_GetCollectionOrdering ==
    (last.op = "getCollection" /\ NoUnknownError(segments, last.key))
        => /\ last.res = Ret(Concatenation(segments, Len(segments), last.key),
                             "nil")
           /\ (\A i \in 1..Len(segments) : ~Contains(segments, i, last.key))
                => last.res.v = <<>>

\* getCollection has put together the values of an older and of a newer
\* segment that hold different lists, with a segment between them that
\* reports NotFound
C22_Witness ==
    /\ last.op = "getCollection"
    /\ Len(segments) = 3
    /\ Contains(segments, 1, last.key)
    /\ SegmentGetCollection(segments[2], last.key).err = "NotFound"
    /\ Contains(segments, 3, last.key)
    /\ SegmentGetCollection(segments[1], last.key).v = <<"b", "a">>
    /\ SegmentGetCollection(segments[3], last.key).v = <<"a">>
    /\ last.res = Ret(<<"b", "a", "a">>, "nil")

\* getCollectionAndSegments includes the segment at position i
Included(segs, i, key) ==
    Contains(segs, i, key) \/ segs[i].strategy = "inverted"

\* C23 (get_collection_and_segments alignment): the lists of values and
\* the segments getCollectionAndSegments returns are equally many (none of
\* either when it returns an error), the list at an index is the one of the
\* segment at that index, and the segments are in the order of the sequence
\* from the oldest to the newest; the segments returned are exactly those
\* that hold the key or are of the Inverted strategy, an Inverted segment
\* without the key having an empty list, so that a segment of another
\* strategy that reports NotFound is left out
C23_LayersAligned ==
    last.op = "getCollectionAndSegments"
        => LET res == last.res
               key == last.key
           IN IF NoUnknownError(segments, key)
              THEN /\ res.err = "nil"
                   /\ Len(res.out) = Len(res.segments)
                   /\ \A j \in 1..Len(res.segments) :
                         /\ res.segments[j] \in 1..Len(segments)
                         /\ res.out[j] = SegmentGetCollection(
                                segments[res.segments[j]], key).v
                         /\ ~Contains(segments, res.segments[j], key)
                              => res.out[j] = <<>>
                         /\ j > 1 => res.segments[j - 1] < res.segments[j]
                   /\ {res.segments[j] : j \in 1..Len(res.segments)}
                        = {i \in 1..Len(segments) : Included(segments, i, key)}
              ELSE /\ res.err \notin {"nil", "NotFound"}
                   /\ res.out = "nil"
                   /\ res.segments = "nil"

\* getCollectionAndSegments has returned an Inverted segment that does not
\* hold the key, with an empty list, and a segment that holds it, and has
\* left out a segment of another strategy that reports NotFound
C23_Witness ==
    /\ last.op = "getCollectionAndSegments"
    /\ Len(segments) = 3
    /\ segments[1].strategy = "inverted"
    /\ ~Contains(segments, 1, last.key)
    /\ segments[2].strategy = "mapcollection"
    /\ ~Contains(segments, 2, last.key)
    /\ Contains(segments, 3, last.key)
    /\ last.res = RetLayers(<<<<>>, SegmentGetCollection(segments[3], last.key).v>>,
                            <<1, 3>>, "nil")
    /\ SegmentGetCollection(segments[3], last.key).v # <<>>

\* the newest position whose segment answers the key with anything but
\* NotFound, 0 if there is none: the walk from the newest segment down
\* reaches it and no older one
NewestAnswering(segs, key) ==
    LET answering == {i \in 1..Len(segs) : SegmentGet(segs[i], key) # "NotFound"}
    IN IF answering = {} THEN 0
       ELSE CHOOSE i \in answering : \A j \in answering : j <= i

\* C24 (an unknown segment error is fatal on the Replace read path): when
\* the segment that get, getErrDeleted or getBySecondaryIntoMemory reaches
\* first among those that do not report NotFound returns an error other
\* than Deleted, the call panics there: it returns neither a value of an
\* older segment nor nil nor NotFound; and the call panics in no other case
C24_UnknownErrorIsFatal ==
    last.op \in {"get", "getErrDeleted", "getBySecondaryIntoMemory"}
        => LET n == NewestAnswering(segments, last.key)
               fatal == n > 0 /\ SegmentGet(segments[n], last.key) = "IOError"
           IN /\ fatal <=> last.res.err = "panic"
              /\ fatal => last.res.v = "panic"
              /\ fatal => last.res \notin
                            {Ret(v, e) : v \in Values \cup {"nil"},
                                         e \in {"nil", "NotFound", "Deleted"}}

\* get has panicked at the segment in the middle, which returned an unknown
\* error, below a segment that reports NotFound and above one that holds a
\* value
C24_Witness ==
    /\ last.op = "get"
    /\ Len(segments) = 3
    /\ SegmentGet(segments[3], last.key) = "NotFound"
    /\ SegmentGet(segments[2], last.key) = "IOError"
    /\ SegmentGet(segments[1], last.key) \in Values
    /\ last.res = Panic

\* the read operation op for key goes through the slot at position i of
\* segs: count goes through every slot, get and getErrDeleted go from the
\* newest slot down through every slot above which no segment answered
Traverses(segs, op, key, i) ==
    \/ op = "count"
    \/ /\ op \in {"get", "getErrDeleted"}
       /\ \A j \in (i + 1)..Len(segs) :
             IF segs[j] = NilSegment THEN FALSE
             ELSE SegmentGet(segs[j], key) = "NotFound"

\* C25 (a reader never meets a nil slot): in every state reached by
\* recovery, appends and shutdown, also a shutdown that returned the error
\* of a close, every slot a read operation then goes through holds a
\* segment that is not nil
C25_NoNilSlotForReaders ==
    last.op \in {"get", "getErrDeleted", "count"}
        => \A i \in 1..Len(segments) :
              Traverses(segments, last.op,
                        IF last.op = "count" THEN "k1" ELSE last.key, i)
                  => segments[i] # NilSegment

\* the closure of pass is called in this step
Starts(pass) ==
    /\ pc'["cycle"] \in {"first", "second"}
    /\ pc'["cycle"] # pc["cycle"]
    /\ loc'["cycle"].pass = pass

\* C26 (compaction is not starved by forced cleanup): a tick calls at
\* least one of compaction and cleanup; the time of the last call of a pass
\* changes only when that pass is called, to the time of the call; and a
\* tick that called cleanup first is not followed by another such tick
\* when less than 12 hours lie between the two, whether or not the cleanup
\* passes report work
C26_CompactionNotStarved ==
    /\ [](pc["cycle"] = "return" => Len(loc["cycle"].ran) >= 1)
    /\ [][TickStarts => Starts("compaction") \/ Starts("cleanup")]_vars
    /\ [][sgState = "open"
            => /\ Starts("cleanup") => lastCleanupCall' = clock
               /\ Starts("compaction") => lastCompactionCall' = clock
               /\ lastCleanupCall' # lastCleanupCall => Starts("cleanup")
               /\ lastCompactionCall' # lastCompactionCall
                    => Starts("compaction")]_vars
    /\ [][(/\ TickStarts
           /\ last.op = "tick"
           /\ last.first = "cleanup"
           /\ clock - last.at < ForceCleanupInterval)
            => last'.first = "compaction"]_vars

\* the tick before called cleanup first, which did no work, and compaction
\* later; since then less than 12 hours have passed and the callback is
\* due again with cleanup called before compaction
C26_Witness ==
    /\ CallbackDue
    /\ last.op = "tick"
    /\ last.first = "cleanup"
    /\ lastCleanupCall = last.at
    /\ lastCleanupCall < lastCompactionCall
    /\ clock > lastCompactionCall
    /\ clock - last.at < ForceCleanupInterval

====
